---------------------------- MODULE Spec2Model ----------------------------
(***************************************************************************)
(* Model of the audio turn-taking core of polyglott:                       *)
(*   vad/base.py, vad/detector.py, vad/ten_vad.py  (hysteresis detector)   *)
(*   audio/recorder.py                             (utterance recorder)    *)
(*   audio/player.py                               (interruptible player)  *)
(*   audio/pipeline.py                             (follow-up scheduler)   *)
(* Probabilities are percentages (0.5 is 50), durations are counted in     *)
(* ticks of 16 ms (half a 32 ms VAD chunk).                                *)
(***************************************************************************)
EXTENDS Integers, Sequences, FiniteSets, TLC

(***************************************************************************)
(* Bounds of the model                                                     *)
(***************************************************************************)
\* largest speech_pad_frames / silence_pad_frames a detector is built with
MaxPad == 2
\* frames fed to a detector between two resets
MaxFrames == 6
\* reset() calls on the detector under test
MaxResets == 2
\* longest max_duration a recording is started with, in ticks of 16 ms
MaxTicks == 12
\* longest audio handed to the player, in output blocks
MaxPlayBlocks == 7
\* longest max_duration of a recording made with the default min_duration,
\* in ticks of 16 ms
MaxLongTicks == 22
\* respond() calls made on one tutor
MaxResponds == 12
\* of them, calls whose chat request fails
MaxChatFailures == 2
\* playback calls made on one AudioPlayer
MaxCalls == 3

(***************************************************************************)
(* Program constants                                                       *)
(***************************************************************************)
AUDIO_SAMPLE_RATE == 16000
VAD_CHUNK_DURATION_MS == 32
VAD_CHUNK_SAMPLES == (AUDIO_SAMPLE_RATE * VAD_CHUNK_DURATION_MS) \div 1000
\* VAD_SPEECH_THRESHOLD = 0.5, as a percentage
VAD_SPEECH_THRESHOLD == 50
\* TenVadDetector.DEFAULT_HOP_SIZE
DEFAULT_HOP_SIZE == 256
\* the look-back constants recorder.py imports from polyglott.constants
\* (their definitions are not in constants.py): a bounded FIFO of the most
\* recent silence frames, scaled down from "the last 10 frames"
VAD_PRE_SPEECH_BUFFER_CHUNKS == 2
VAD_MAX_SILENCE_BUFFER_CHUNKS == 3
\* VoiceActivityDetector's default pads
VAD_SPEECH_PAD_FRAMES == 3
VAD_SILENCE_PAD_FRAMES == 10
\* follow-up thresholds, cumulative seconds of silence
FOLLOWUP_TIER1_TIMEOUT == 10
FOLLOWUP_TIER2_TIMEOUT == 20
FOLLOWUP_TIER3_TIMEOUT == 30
\* the listening window when follow-ups are disabled, in seconds
NoFollowupTimeout == 30
\* TTS output sample rate
TTS_SAMPLE_RATE == 24000
\* play_interruptible: interrupt_threshold = 0.6, as a percentage
INTERRUPT_THRESHOLD == 60
\* play_interruptible: warmup_chunks
WARMUP_CHUNKS == 5

MAX_CONVERSATION_HISTORY == 20
\* MIN_SPEECH_DURATION_SECONDS, in milliseconds
MIN_SPEECH_DURATION_MS == 300
\* np.zeros(int(sample_rate * 0.1)): the 100 ms placeholder
PlaceholderSamples == AUDIO_SAMPLE_RATE \div 10

SILENCE      == "silence"
SPEECH_START == "speech_start"
SPEAKING     == "speaking"
SPEECH_END   == "speech_end"
SpeechState  == {SILENCE, SPEECH_START, SPEAKING, SPEECH_END}

(***************************************************************************)
(* The speech-probability backend (Silero network / TEN VAD) is a black    *)
(* box with recurrent state.  A frame is reduced to its loudness level;    *)
(* the backend remembers the level of the previous frame (h) and smooths   *)
(* the score with it, so the score of a frame depends on what the model    *)
(* has seen since its state was last cleared.                              *)
(***************************************************************************)
Levels == {0, 1, 2}
Backends == {"silero", "ten_vad"}

ModelFresh == 0
ModelScore(lvl, h) == 40 * lvl + 10 * h
ModelStep(lvl, h) == lvl

(***************************************************************************)
(* Detector objects                                                        *)
(***************************************************************************)
\* BaseVADDetector.__init__ / VoiceActivityDetector.__init__
NewDetector(kind, sp, sil) ==
    [ kind |-> kind,
      threshold |-> VAD_SPEECH_THRESHOLD,
      speech_pad_frames |-> sp,
      silence_pad_frames |-> sil,
      speech_frame_count |-> 0,
      silence_frame_count |-> 0,
      is_speaking |-> FALSE,
      loaded |-> FALSE,
      h |-> ModelFresh ]

\* reset() that loads a model when it finds none: a second reset() in a
\* row then undoes what the first did to the model
ResetTogglesModel(d) ==
    [d EXCEPT !.speech_frame_count = 0,
              !.silence_frame_count = 0,
              !.is_speaking = FALSE,
              !.loaded = ~d.loaded,
              !.h = ModelFresh]

\* reset() that forgets to clear the hysteresis flag and the model state
ResetKeepsState(d) ==
    [d EXCEPT !.speech_frame_count = 0, !.silence_frame_count = 0]

\* VoiceActivityDetector.reset: reset_states() on a loaded model, counters
\* zeroed.  BaseVADDetector.reset + TenVadDetector._reset_model: counters
\* zeroed, the model dropped (it is recreated, fresh, on next use).
Reset(d) ==
    IF d.kind = "silero"
    THEN [d EXCEPT !.h = IF d.loaded THEN ModelFresh ELSE @,
                   !.speech_frame_count = 0,
                   !.silence_frame_count = 0,
                   !.is_speaking = FALSE]
    ELSE [d EXCEPT !.speech_frame_count = 0,
                   !.silence_frame_count = 0,
                   !.is_speaking = FALSE,
                   !.loaded = FALSE,
                   !.h = ModelFresh]

\* counters where a speech frame leaves the silence count standing
CountFrameKeepsSilence(d, is_speech) ==
    IF is_speech
    THEN [d EXCEPT !.speech_frame_count = @ + 1]
    ELSE [d EXCEPT !.silence_frame_count = @ + 1, !.speech_frame_count = 0]

\* counters where a non-speech frame leaves the speech count standing
CountFrameKeepsSpeech(d, is_speech) ==
    IF is_speech
    THEN [d EXCEPT !.speech_frame_count = @ + 1, !.silence_frame_count = 0]
    ELSE [d EXCEPT !.silence_frame_count = @ + 1]

\* the counters after one frame (first half of _update_state)
CountFrame(d, is_speech) ==
    IF is_speech
    THEN [d EXCEPT !.speech_frame_count = @ + 1, !.silence_frame_count = 0]
    ELSE [d EXCEPT !.silence_frame_count = @ + 1, !.speech_frame_count = 0]

\* _update_state whose speech branch leaves the silence counter running
UpdateStateStaleSilence(d, is_speech) ==
    LET c == IF is_speech
             THEN [d EXCEPT !.speech_frame_count = @ + 1]
             ELSE [d EXCEPT !.silence_frame_count = @ + 1,
                            !.speech_frame_count = 0]
    IN IF ~c.is_speaking
       THEN IF c.speech_frame_count >= c.speech_pad_frames
            THEN [det |-> [c EXCEPT !.is_speaking = TRUE], state |-> SPEECH_START]
            ELSE [det |-> c, state |-> SILENCE]
       ELSE IF c.silence_frame_count >= c.silence_pad_frames
            THEN [det |-> [c EXCEPT !.is_speaking = FALSE], state |-> SPEECH_END]
            ELSE [det |-> c, state |-> SPEAKING]

\* BaseVADDetector._update_state, the hysteresis TenVadDetector inherits
UpdateState(d, is_speech) ==
    LET c == CountFrame(d, is_speech)
    IN IF ~c.is_speaking
       THEN IF c.speech_frame_count >= c.speech_pad_frames
            THEN [det |-> [c EXCEPT !.is_speaking = TRUE], state |-> SPEECH_START]
            ELSE [det |-> c, state |-> SILENCE]
       ELSE IF c.silence_frame_count >= c.silence_pad_frames
            THEN [det |-> [c EXCEPT !.is_speaking = FALSE], state |-> SPEECH_END]
            ELSE [det |-> c, state |-> SPEAKING]

\* a Silero hysteresis that wants one frame more than speech_pad_frames
SileroUpdateStateLateStart(d, is_speech) ==
    LET c == IF is_speech
             THEN [d EXCEPT !.speech_frame_count = @ + 1,
                            !.silence_frame_count = 0]
             ELSE [d EXCEPT !.silence_frame_count = @ + 1,
                            !.speech_frame_count = 0]
    IN IF ~c.is_speaking
       THEN IF c.speech_frame_count > c.speech_pad_frames
            THEN [det |-> [c EXCEPT !.is_speaking = TRUE], state |-> SPEECH_START]
            ELSE [det |-> c, state |-> SILENCE]
       ELSE IF c.silence_frame_count >= c.silence_pad_frames
            THEN [det |-> [c EXCEPT !.is_speaking = FALSE], state |-> SPEECH_END]
            ELSE [det |-> c, state |-> SPEAKING]

\* VoiceActivityDetector._update_state, the Silero detector's own copy
SileroUpdateState(d, is_speech) ==
    LET c == IF is_speech
             THEN [d EXCEPT !.speech_frame_count = @ + 1,
                            !.silence_frame_count = 0]
             ELSE [d EXCEPT !.silence_frame_count = @ + 1,
                            !.speech_frame_count = 0]
    IN IF ~c.is_speaking
       THEN IF c.speech_frame_count >= c.speech_pad_frames
            THEN [det |-> [c EXCEPT !.is_speaking = TRUE], state |-> SPEECH_START]
            ELSE [det |-> c, state |-> SILENCE]
       ELSE IF c.silence_frame_count >= c.silence_pad_frames
            THEN [det |-> [c EXCEPT !.is_speaking = FALSE], state |-> SPEECH_END]
            ELSE [det |-> c, state |-> SPEAKING]

\* state = self._update_state(is_speech): each class runs its own method
DetectorUpdateState(d, is_speech) ==
    IF d.kind = "silero" THEN SileroUpdateState(d, is_speech)
    ELSE UpdateState(d, is_speech)

\* _get_expected_samples / the length check of process_chunk
ExpectedSamples(d) ==
    IF d.kind = "silero"
    THEN (AUDIO_SAMPLE_RATE * VAD_CHUNK_DURATION_MS) \div 1000
    ELSE DEFAULT_HOP_SIZE

\* the lazily loaded model: a model that is not loaded is created fresh
ModelState(d) == IF d.loaded THEN d.h ELSE ModelFresh

\* process_chunk without the length check: the frame is scored whatever
\* its length
ProcessChunkAnyLength(d, frame) ==
    LET prob == ModelScore(frame.lvl, ModelState(d))
        is_speech == prob >= d.threshold
        scored == [d EXCEPT !.loaded = TRUE,
                            !.h = ModelStep(frame.lvl, ModelState(d))]
        u == DetectorUpdateState(scored, is_speech)
    IN [det |-> u.det, raised |-> FALSE,
        speech_probability |-> prob, is_speech |-> is_speech,
        state |-> u.state]

\* process_chunk: a frame is [lvl, len].  A wrong length raises ValueError
\* before anything is touched; otherwise the backend scores the frame (and
\* advances its recurrent state) and _update_state runs on the outcome.
ProcessChunk(d, frame) ==
    IF frame.len # ExpectedSamples(d)
    THEN [det |-> d, raised |-> TRUE,
          speech_probability |-> 0, is_speech |-> FALSE, state |-> SILENCE]
    ELSE LET prob == ModelScore(frame.lvl, ModelState(d))
             is_speech == prob >= d.threshold
             scored == [d EXCEPT !.loaded = TRUE,
                                 !.h = ModelStep(frame.lvl, ModelState(d))]
             u == DetectorUpdateState(scored, is_speech)
         IN [det |-> u.det, raised |-> FALSE,
             speech_probability |-> prob, is_speech |-> is_speech,
             state |-> u.state]

(***************************************************************************)
(* Recorder helpers (audio/recorder.py)                                    *)
(***************************************************************************)
\* Python's seq[-n:]  (seq[-0:] is the whole list)
LastN(seq, n) ==
    IF n = 0 \/ Len(seq) <= n THEN seq
    ELSE SubSeq(seq, Len(seq) - n + 1, Len(seq))

\* max_chunks = int(max_duration * sample_rate / chunk_samples), the
\* duration given in milliseconds
MaxChunksOf(ms) == (ms * AUDIO_SAMPLE_RATE) \div (1000 * VAD_CHUNK_SAMPLES)

\* a look-back buffer that evicts the newest frame instead of the oldest
PushSilenceDropNewest(buf, chunk) ==
    IF Len(buf) + 1 > VAD_MAX_SILENCE_BUFFER_CHUNKS THEN buf
    ELSE Append(buf, chunk)

\* SILENCE branch: audio_buffer.append(chunk); pop(0) beyond the capacity
PushSilence(buf, chunk) ==
    LET b == Append(buf, chunk)
    IN IF Len(b) > VAD_MAX_SILENCE_BUFFER_CHUNKS THEN Tail(b) ELSE b

\* SPEECH_START branch: the look-back frames, then the current chunk
SpliceLookBack(speech, buf, chunk) ==
    Append(speech \o LastN(buf, VAD_PRE_SPEECH_BUFFER_CHUNKS), chunk)

\* an overflowed read that is retried without using up an iteration
OverflowRetries(i) == i

\* `continue` inside `for _ in range(max_chunks)`: the iteration is spent
AfterOverflow(i) == i + 1

\* a loop that goes on reading after the end of speech
AfterSpeechEndKeepsReading(started) == "loop"

\* SPEECH_END branch: `break` when speech had started in this call
AfterSpeechEnd(started) == IF started THEN "post" ELSE "loop"

\* a result that asks for strictly more than the minimum duration
MakeResultStrictMinimum(speech, detected, min_ms) ==
    LET samples == IF speech # <<>> THEN Len(speech) * VAD_CHUNK_SAMPLES
                   ELSE AUDIO_SAMPLE_RATE \div 10
    IN [ audio |-> speech,
         placeholder |-> (speech = <<>>),
         samples |-> samples,
         sample_rate |-> AUDIO_SAMPLE_RATE,
         was_speech_detected |->
             detected /\ (samples * 1000 > min_ms * AUDIO_SAMPLE_RATE) ]

\* a result without the placeholder: no captured speech gives empty audio
MakeResultNoPlaceholder(speech, detected, min_ms) ==
    LET samples == Len(speech) * VAD_CHUNK_SAMPLES
    IN [ audio |-> speech,
         placeholder |-> FALSE,
         samples |-> samples,
         sample_rate |-> AUDIO_SAMPLE_RATE,
         was_speech_detected |->
             detected /\ (samples * 1000 >= min_ms * AUDIO_SAMPLE_RATE) ]

\* a result that accepts any utterance, however short
MakeResultIgnoresMinimum(speech, detected, min_ms) ==
    LET samples == IF speech # <<>> THEN Len(speech) * VAD_CHUNK_SAMPLES
                   ELSE PlaceholderSamples
    IN [ audio |-> speech,
         placeholder |-> (speech = <<>>),
         samples |-> samples,
         sample_rate |-> AUDIO_SAMPLE_RATE,
         was_speech_detected |-> detected ]

\* the RecordingResult built after the loop
MakeResult(speech, detected, min_ms) ==
    LET samples == IF speech # <<>> THEN Len(speech) * VAD_CHUNK_SAMPLES
                   ELSE PlaceholderSamples
    IN [ audio |-> speech,
         placeholder |-> (speech = <<>>),
         samples |-> samples,
         sample_rate |-> AUDIO_SAMPLE_RATE,
         was_speech_detected |->
             detected /\ (samples * 1000 >= min_ms * AUDIO_SAMPLE_RATE) ]

(***************************************************************************)
(* record_streaming (audio/recorder.py, lines 234-361), run on the reads   *)
(* of a recording: each read is "overflow" or the state the detector       *)
(* returned for the chunk, chunks being numbered by their read.            *)
(***************************************************************************)
\* yield_samples = int(chunk_duration_seconds * sample_rate), for 0.064 s
\* and for the default 0.5 s
YieldSamplesArgs == { 2 * VAD_CHUNK_SAMPLES, AUDIO_SAMPLE_RATE \div 2 }

\* the generator's locals before the loop (lines 261-273)
StreamStart ==
    [ audio_buffer |-> <<>>, speech_buffer |-> <<>>, pending_yield |-> <<>>,
      yielded |-> <<>>, speech_detected |-> FALSE, speech_started |-> FALSE,
      broke |-> FALSE ]

\* lines 337-342: pending audio is yielded once it reaches yield_samples
StreamFlush(st, yield_samples) ==
    IF st.speech_started
       /\ Len(st.pending_yield) * VAD_CHUNK_SAMPLES >= yield_samples
    THEN [st EXCEPT !.yielded = Append(@, st.pending_yield),
                    !.pending_yield = <<>>]
    ELSE st

\* a loop body that empties the utterance, not the pending list, on a yield
StreamStepClearsSpeech(st, chunk, outcome, yield_samples) ==
    LET t == IF outcome = SPEAKING /\ st.speech_started
             THEN [st EXCEPT !.speech_buffer = Append(@, chunk),
                             !.pending_yield = Append(@, chunk)]
             ELSE st
    IN IF t.speech_started
          /\ Len(t.pending_yield) * VAD_CHUNK_SAMPLES >= yield_samples
       THEN [t EXCEPT !.yielded = Append(@, t.pending_yield),
                      !.speech_buffer = <<>>]
       ELSE t

\* lines 286-342: one iteration of the loop
StreamStep(st, chunk, outcome, yield_samples) ==
    CASE outcome = "overflow" -> st
      [] outcome = SPEECH_START ->
            StreamFlush(
              [st EXCEPT !.speech_detected = TRUE,
                         !.speech_started = TRUE,
                         !.speech_buffer =
                             Append(@ \o LastN(st.audio_buffer,
                                               VAD_PRE_SPEECH_BUFFER_CHUNKS), chunk),
                         !.pending_yield =
                             Append(@ \o LastN(st.audio_buffer,
                                               VAD_PRE_SPEECH_BUFFER_CHUNKS), chunk)],
              yield_samples)
      [] outcome = SPEAKING ->
            StreamFlush(
              IF st.speech_started
              THEN [st EXCEPT !.speech_buffer = Append(@, chunk),
                              !.pending_yield = Append(@, chunk)]
              ELSE st,
              yield_samples)
      [] outcome = SPEECH_END ->
            IF st.speech_started
            THEN [st EXCEPT !.speech_buffer = Append(@, chunk),
                            !.pending_yield = Append(@, chunk),
                            !.yielded = Append(@, Append(st.pending_yield, chunk)),
                            !.broke = TRUE]
            ELSE StreamFlush(st, yield_samples)
      [] OTHER ->
            StreamFlush(
              [st EXCEPT !.audio_buffer =
                   LET b == Append(@, chunk)
                   IN IF Len(b) > VAD_MAX_SILENCE_BUFFER_CHUNKS THEN Tail(b) ELSE b],
              yield_samples)

\* lines 282-342: the loop over the reads, left at the break
RECURSIVE StreamLoop(_, _, _, _)
StreamLoop(st, reads, k, yield_samples) ==
    IF k > Len(reads) \/ st.broke THEN st
    ELSE StreamLoop(StreamStep(st, k, reads[k], yield_samples),
                    reads, k + 1, yield_samples)

\* lines 347-361: the RecordingResult the generator returns
StreamResult(st) ==
    LET samples == IF st.speech_buffer # <<>>
                   THEN Len(st.speech_buffer) * VAD_CHUNK_SAMPLES
                   ELSE (AUDIO_SAMPLE_RATE * 1) \div 10
    IN [ audio |-> st.speech_buffer,
         placeholder |-> (st.speech_buffer = <<>>),
         samples |-> samples,
         sample_rate |-> AUDIO_SAMPLE_RATE,
         was_speech_detected |->
             st.speech_detected
             /\ (samples * 1000 >= MIN_SPEECH_DURATION_MS * AUDIO_SAMPLE_RATE) ]

\* record_streaming run to completion on the given reads
RecordStreaming(reads, yield_samples) ==
    LET st == StreamLoop(StreamStart, reads, 1, yield_samples)
    IN [ result |-> StreamResult(st), yielded |-> st.yielded, broke |-> st.broke ]

\* a detector left over from earlier use: fed speech until it is speaking
RECURSIVE FeedSpeech(_, _)
FeedSpeech(d, n) ==
    IF n = 0 THEN d
    ELSE FeedSpeech(ProcessChunk(d, [lvl |-> 2, len |-> ExpectedSamples(d)]).det,
                    n - 1)

(***************************************************************************)
(* Player helpers (audio/player.py)                                        *)
(***************************************************************************)
\* output_chunk_size = int(sample_rate * 0.032)
OutputChunkSize == (TTS_SAMPLE_RATE * 32) \div 1000

\* monitor_chunk_samples = int(AUDIO_SAMPLE_RATE * 0.032)
MonitorChunkSamples == (AUDIO_SAMPLE_RATE * 32) \div 1000

\* a write loop that only plays whole blocks
MoreToPlayWholeBlocks(pos, len) == pos + OutputChunkSize <= len

\* while audio_pos < len(audio)
MoreToPlay(pos, len) == pos < len

\* a block end that is not clipped to the end of the buffer
ChunkEndPastBuffer(pos, len) == pos + OutputChunkSize

\* chunk_end = min(audio_pos + output_chunk_size, len(audio))
ChunkEnd(pos, len) == IF pos + OutputChunkSize <= len THEN pos + OutputChunkSize ELSE len

\* an interruption test that asks for a wider margin than the threshold
ExceedsThresholdByMargin(prob, threshold) == prob > threshold + 30

\* vad_result.speech_probability > interrupt_threshold
ExceedsThreshold(prob, threshold) == prob > threshold

\* a warm-up test that lets the last warm-up block through to the detector
PastWarmupOneEarly(n) == n >= WARMUP_CHUNKS

\* chunks_processed > warmup_chunks
PastWarmup(n) == n > WARMUP_CHUNKS

\* a failure of the duplex loop after which the call just returns
AfterLoopFailureReturns == "exit"

\* except Exception: self._play_blocking(audio, sample_rate); return True
AfterLoopFailure == "blocking"

\* a microphone failure that ends the write loop
AfterMicFailureLeaves == "exit"

\* except Exception: pass -- the loop goes on with the next output block
AfterMicFailure == "loop"

(***************************************************************************)
(* State                                                                   *)
(***************************************************************************)
VARIABLES
    \* --- a detector driven directly (SpecVad) ---
    det,        \* the detector under test
    shadow,     \* a detector constructed afresh at the last reset()
    hist,       \* per frame since construction/reset: [is_speech, state]
    shist,      \* the states the shadow detector returned for those frames
    resets,     \* number of reset() calls so far
    vad_raised, \* TRUE when the last process_chunk raised ValueError
    before_reset, \* what reset() last found: [is_speaking, warm (model state not fresh)]
    twin,       \* a detector of the other backend, given det's is_speech outcomes
    thist,      \* the states the twin returned for those outcomes
    double_reset, \* the last two calls were reset(): what the first of them found
    \* --- AudioRecorder (SpecRec) ---
    rec_vad,          \* self.vad, the recorder's own detector
    rec_stop_event,   \* self._stop_event
    is_recording,     \* self._is_recording
    rec_pc,           \* position of the thread inside record_utterance
    rec_i,            \* iterations of `for _ in range(max_chunks)` begun
    max_chunks,
    min_duration,     \* in milliseconds
    audio_buffer,     \* look-back buffer (frame numbers)
    speech_buffer,    \* the utterance (frame numbers)
    speech_detected,
    speech_started,
    rec_log,          \* per read of the stream: "overflow" or the state returned
    rec_result,       \* the RecordingResult, once returned
    n_on_speech_start,
    n_on_speech_end,
    rec_stop_at,      \* reads done when stop() first hit the running call, else -1
    rec_speech_frames, \* frames of this call the detector classified as speech
    max_duration,     \* in milliseconds
    \* --- AudioPlayer (SpecPlay) ---
    play_vad,         \* the barge-in detector handed to play_interruptible
    has_vad,          \* vad_detector is not None
    play_stop_event,  \* self._stop_event
    is_playing,       \* self._is_playing
    was_interrupted,  \* self._was_interrupted
    play_pc,          \* position of the thread inside play_interruptible
    audio_len,        \* len(audio), in samples
    audio_pos,
    chunks_processed,
    written,          \* what reached the output: [from, to) sample ranges
    mic_log,          \* per loop iteration: what the microphone read gave
    n_on_interrupt,   \* calls of on_interrupt
    play_result,      \* "none", or the value returned: "true" / "false"
    play_stop_at,     \* blocks written when stop() first hit the running call, else -1
    sd_stopped,       \* sounddevice.stop() hit a blocking sd.play()
    play_faults,      \* stream failures met by the call, in order
    warmup_peak,      \* loudest microphone block read during the warm-up
    \* --- AudioPipeline (SpecPipe) ---
    pipe_pc,          \* position of the thread inside process_turn_with_followup
    pipe_state,       \* self._state
    enable_followups,
    max_followup_tier,
    enable_barge_in,
    native_language,
    current_tier,
    turn,             \* the ConversationTurn being filled
    playing_what,     \* what the player was handed: "prompt" / "response"
    recordings,       \* timeout (seconds) of every recording started
    prompts,          \* tier and language of every follow-up prompt played
    n_responses,      \* tutor responses generated
    speech_seen,      \* some recording of the call had speech
    pipe_raised,      \* "none", or the exception that left the call
    pipe_stop_at,     \* what had been started when stop() first hit the call
    vad_heap,         \* the detector objects the pipeline created, by identity
    recorder_vad,     \* identity of self._recorder.vad (0: no recorder yet)
    interrupt_vad,    \* identity of self._interrupt_vad (0: None)
    target_language,  \* self.target_language.value
    pipe_log,         \* what the call did, in order
    pipe_faults,      \* failures of the tutor and the synthesizer, in order
    \* --- LanguageTutor (SpecTutor) ---
    history,          \* self._history: messages [role, call]
    tutor_calls,      \* respond() calls made so far
    chat_failures,    \* of them, calls whose chat request failed
    evicted,          \* what the last _trim_history removed, oldest first
    tutor_raised,     \* the last respond() left with an exception
    \* --- AudioPlayer over several calls (SpecCalls) ---
    main_pc,          \* position of the calling thread inside play / play_interruptible
    n_calls,          \* playback calls made so far
    cur_call,         \* the most recent playback call: [no, kind, blocking, speech]
    runners,          \* the _play_blocking runs started by play(), in order
    sd_stream         \* the call whose audio sounddevice is playing (0: none)

vadVars == <<det, shadow, hist, shist, resets, vad_raised, before_reset,
            double_reset, twin, thist>>
recVars == <<rec_vad, rec_stop_event, is_recording, rec_pc, rec_i, max_chunks,
             min_duration, audio_buffer, speech_buffer, speech_detected,
             speech_started, rec_log, rec_result, n_on_speech_start,
             n_on_speech_end, rec_stop_at,
             rec_speech_frames, max_duration>>
playVars == <<play_vad, has_vad, play_stop_event, is_playing, was_interrupted,
              play_pc, audio_len, audio_pos, chunks_processed, written, mic_log,
              n_on_interrupt, play_result, play_stop_at, sd_stopped,
              play_faults, warmup_peak>>
pipeVars == <<pipe_pc, pipe_state, enable_followups, max_followup_tier,
              enable_barge_in, native_language, current_tier, turn, playing_what,
              recordings, prompts, n_responses, speech_seen, pipe_raised,
              pipe_stop_at, vad_heap, recorder_vad, interrupt_vad,
              target_language, pipe_log, pipe_faults>>
vadRefs == <<vad_heap, recorder_vad, interrupt_vad>>
pipeRest == <<pipe_state, enable_followups, max_followup_tier, enable_barge_in,
              native_language, current_tier, turn, playing_what, recordings,
              prompts, n_responses, speech_seen, pipe_raised, pipe_stop_at,
              target_language, pipe_log, pipe_faults>>
\* the recorder and the player without the fields the pipeline's steps touch
recRest == <<rec_vad, rec_pc, rec_i, max_chunks, min_duration, audio_buffer,
             speech_buffer, speech_detected, speech_started, rec_log, rec_result,
             n_on_speech_start, n_on_speech_end, rec_stop_at,
             rec_speech_frames, max_duration>>
playRest == <<play_vad, has_vad, was_interrupted, play_pc, audio_len, audio_pos,
              chunks_processed, written, mic_log, n_on_interrupt, play_result,
              play_stop_at, sd_stopped,
              play_faults, warmup_peak>>
tutorVars == <<history, tutor_calls, chat_failures, evicted, tutor_raised>>
callVars == <<main_pc, n_calls, cur_call, runners, sd_stream>>
\* the player without the fields play(), stop() and the property touch
playCallRest == <<play_vad, has_vad, play_pc, audio_len, audio_pos,
                  chunks_processed, written, mic_log, n_on_interrupt,
                  play_result, play_stop_at, sd_stopped, play_faults,
                  warmup_peak>>
vars == <<vadVars, recVars, playVars, pipeVars, tutorVars, callVars>>

\* the value of rec_result while nothing has been returned
NoResult ==
    [ audio |-> <<>>, placeholder |-> FALSE, samples |-> 0,
      sample_rate |-> 0, was_speech_detected |-> FALSE ]

\* LanguageTutor.__init__
TutorFields ==
    /\ history = <<>>
    /\ tutor_calls = 0
    /\ chat_failures = 0
    /\ evicted = <<>>
    /\ tutor_raised = FALSE

\* no playback call was made yet
NoCall == [no |-> 0, kind |-> "none", blocking |-> FALSE, speech |-> FALSE]

CallFields ==
    /\ main_pc = "idle"
    /\ n_calls = 0
    /\ cur_call = NoCall
    /\ runners = <<>>
    /\ sd_stream = 0

\* the value of double_reset unless reset() was just called twice in a row
NoDoubleReset == [twice |-> FALSE, is_speaking |-> FALSE, warm |-> FALSE]

\* the variables of a component that a specification does not exercise
VadUnused ==
    /\ det = NewDetector("silero", 1, 1)
    /\ shadow = NewDetector("silero", 1, 1)
    /\ hist = <<>>
    /\ shist = <<>>
    /\ resets = 0
    /\ vad_raised = FALSE
    /\ before_reset = [is_speaking |-> FALSE, warm |-> FALSE]
    /\ double_reset = NoDoubleReset
    /\ twin = NewDetector("ten_vad", 1, 1)
    /\ thist = <<>>

RecUnused ==
    /\ rec_vad = NewDetector("silero", 1, 1)
    /\ rec_stop_event = FALSE
    /\ is_recording = FALSE
    /\ rec_pc = "idle"
    /\ rec_i = 0
    /\ max_chunks = 0
    /\ min_duration = 0
    /\ audio_buffer = <<>>
    /\ speech_buffer = <<>>
    /\ speech_detected = FALSE
    /\ speech_started = FALSE
    /\ rec_log = <<>>
    /\ rec_result = NoResult
    /\ n_on_speech_start = 0
    /\ n_on_speech_end = 0
    /\ rec_stop_at = -1
    /\ rec_speech_frames = 0
    /\ max_duration = 0

PlayFields ==
    /\ has_vad = FALSE
    /\ play_stop_event = FALSE
    /\ is_playing = FALSE
    /\ was_interrupted = FALSE
    /\ play_pc = "idle"
    /\ audio_len = 0
    /\ audio_pos = 0
    /\ chunks_processed = 0
    /\ written = <<>>
    /\ mic_log = <<>>
    /\ n_on_interrupt = 0
    /\ play_result = "none"
    /\ play_stop_at = -1
    /\ sd_stopped = FALSE
    /\ play_faults = <<>>
    /\ warmup_peak = 0

PlayUnused ==
    /\ play_vad = NewDetector("silero", 1, 1)
    /\ PlayFields

\* ConversationTurn()
EmptyTurn ==
    [user_audio |-> "None", user_text |-> "", tutor_text |-> "",
     tutor_audio |-> "None", state |-> "idle", was_interrupted |-> FALSE]

NotStopped == [recordings |-> -1, prompts |-> -1, responses |-> -1]

PipeFields ==
    /\ pipe_pc = "idle"
    /\ pipe_state = "idle"
    /\ enable_followups = FALSE
    /\ max_followup_tier = 0
    /\ current_tier = 0
    /\ turn = EmptyTurn
    /\ playing_what = "none"
    /\ recordings = <<>>
    /\ prompts = <<>>
    /\ n_responses = 0
    /\ speech_seen = FALSE
    /\ pipe_raised = "none"
    /\ pipe_stop_at = NotStopped
    /\ vad_heap = <<>>
    /\ recorder_vad = 0
    /\ interrupt_vad = 0
    /\ pipe_log = <<>>
    /\ pipe_faults = <<>>

PipeUnused ==
    /\ enable_barge_in = FALSE
    /\ native_language = <<>>
    /\ target_language = <<>>
    /\ PipeFields

(***************************************************************************)
(* SpecVad: one detector, fed frames and reset by its owner                *)
(***************************************************************************)
\* the backend a detector is compared with
OtherBackend(kind) == IF kind = "silero" THEN "ten_vad" ELSE "silero"

InitVad ==
    /\ \E kind \in Backends, sp \in 1..MaxPad, sil \in 1..MaxPad :
          /\ det = NewDetector(kind, sp, sil)
          /\ shadow = NewDetector(kind, sp, sil)
          /\ twin = NewDetector(OtherBackend(kind), sp, sil)
    /\ thist = <<>>
    /\ hist = <<>>
    /\ shist = <<>>
    /\ resets = 0
    /\ vad_raised = FALSE
    /\ before_reset = [is_speaking |-> FALSE, warm |-> FALSE]
    /\ double_reset = NoDoubleReset
    /\ RecUnused
    /\ PlayUnused
    /\ PipeUnused
    /\ TutorFields
    /\ CallFields

\* detector.process_chunk(frame) on a frame of the right length
VadProcessChunk ==
    /\ Len(hist) < MaxFrames
    /\ \E lvl \in Levels :
         LET frame == [lvl |-> lvl, len |-> ExpectedSamples(det)]
             r == ProcessChunk(det, frame)
             s == ProcessChunk(shadow, frame)
             t == DetectorUpdateState(twin, r.is_speech)
         IN /\ det' = r.det
            /\ shadow' = s.det
            /\ hist' = Append(hist, [is_speech |-> r.is_speech, state |-> r.state])
            /\ shist' = Append(shist, s.state)
            /\ twin' = t.det
            /\ thist' = Append(thist, t.state)
            /\ vad_raised' = FALSE
    /\ double_reset' = NoDoubleReset
    /\ UNCHANGED <<resets, before_reset>>

\* frame lengths that differ from the one the backend expects: empty, one
\* sample short or long, two chunks, the other backend's chunk
BadLengths(d) ==
    {0, ExpectedSamples(d) - 1, ExpectedSamples(d) + 1, 2 * ExpectedSamples(d),
     VAD_CHUNK_SAMPLES, DEFAULT_HOP_SIZE} \ {ExpectedSamples(d)}

\* detector.process_chunk(frame) on a frame of a wrong length
VadProcessBadChunk ==
    /\ ~vad_raised
    /\ \E len \in BadLengths(det) :
         LET frame == [lvl |-> 2, len |-> len]
             r == ProcessChunk(det, frame)
             s == ProcessChunk(shadow, frame)
         IN /\ det' = r.det
            /\ shadow' = s.det
            /\ vad_raised' = r.raised
    /\ double_reset' = NoDoubleReset
    /\ UNCHANGED <<hist, shist, resets, before_reset, twin, thist>>

\* detector.reset(); the shadow is replaced by a newly constructed detector
VadReset ==
    /\ resets < MaxResets
    /\ det' = Reset(det)
    /\ shadow' = NewDetector(det.kind, det.speech_pad_frames, det.silence_pad_frames)
    /\ hist' = <<>>
    /\ shist' = <<>>
    /\ resets' = resets + 1
    /\ vad_raised' = FALSE
    /\ twin' = Reset(twin)
    /\ thist' = <<>>
    /\ before_reset' = [is_speaking |-> det.is_speaking,
                         warm |-> det.loaded /\ det.h # ModelFresh]
    /\ double_reset' = IF resets > 0 /\ hist = <<>> /\ ~vad_raised
                        THEN [twice |-> TRUE,
                              is_speaking |-> before_reset.is_speaking,
                              warm |-> before_reset.warm]
                        ELSE NoDoubleReset

NextVad ==
    \/ VadProcessChunk /\ UNCHANGED <<recVars, playVars, pipeVars, tutorVars, callVars>>
    \/ VadProcessBadChunk /\ UNCHANGED <<recVars, playVars, pipeVars, tutorVars, callVars>>
    \/ VadReset /\ UNCHANGED <<recVars, playVars, pipeVars, tutorVars, callVars>>

SpecVad == InitVad /\ [][NextVad]_vars

(***************************************************************************)
(* SpecRec: one record_utterance call on the recorder's thread, stop()     *)
(* arriving from another thread at any moment                              *)
(***************************************************************************)
\* frames the microphone delivers to the recorder: silence or clear speech
RecLevels == {0, 2}
\* min_duration values tried, in milliseconds (0.3 s is the default)
MinDurations == {0, 96, 300}

InitRec ==
    /\ \E sp \in 1..MaxPad, sil \in 1..MaxPad, used \in BOOLEAN :
          rec_vad = IF used
                    THEN FeedSpeech(NewDetector("silero", sp, sil), sp)
                    ELSE NewDetector("silero", sp, sil)
    /\ rec_stop_event = FALSE
    /\ is_recording = FALSE
    /\ rec_pc = "idle"
    /\ rec_i = 0
    /\ max_chunks = 0
    /\ min_duration = 0
    /\ audio_buffer = <<>>
    /\ speech_buffer = <<>>
    /\ speech_detected = FALSE
    /\ speech_started = FALSE
    /\ rec_log = <<>>
    /\ rec_result = NoResult
    /\ n_on_speech_start = 0
    /\ n_on_speech_end = 0
    /\ rec_stop_at = -1
    /\ rec_speech_frames = 0
    /\ max_duration = 0
    /\ VadUnused
    /\ PlayUnused
    /\ PipeUnused
    /\ TutorFields
    /\ CallFields

\* record_utterance, lines 116-127: the detector is reset, the buffers are
\* created, max_chunks is computed and _is_recording is set
StartRecording(ticks, mins) ==
    /\ rec_pc = "idle"
    /\ \E t \in ticks, m \in mins :
          /\ max_duration' = 16 * t
          /\ max_chunks' = MaxChunksOf(16 * t)
          /\ min_duration' = m
    /\ rec_vad' = Reset(rec_vad)
    /\ audio_buffer' = <<>>
    /\ speech_buffer' = <<>>
    /\ speech_detected' = FALSE
    /\ speech_started' = FALSE
    /\ is_recording' = TRUE
    /\ rec_pc' = "clear"
    /\ rec_speech_frames' = 0
    /\ UNCHANGED <<rec_stop_event, rec_i, rec_log, rec_result,
                   n_on_speech_start, n_on_speech_end, rec_stop_at>>

RecordUtterance == StartRecording(0..MaxTicks, MinDurations)

\* line 128: self._stop_event.clear(), then the input stream is opened
RecClearStop ==
    /\ rec_pc = "clear"
    /\ rec_stop_event' = FALSE
    /\ rec_pc' = "loop"
    /\ UNCHANGED <<rec_vad, is_recording, rec_i, max_chunks, min_duration,
                   audio_buffer, speech_buffer, speech_detected, speech_started,
                   rec_log, rec_result, n_on_speech_start, n_on_speech_end,
                   rec_stop_at,
                   rec_speech_frames, max_duration>>

\* lines 137-139: the head of the for loop and the stop check
RecLoopHead ==
    /\ rec_pc = "loop"
    /\ rec_pc' = IF rec_i >= max_chunks \/ rec_stop_event THEN "post" ELSE "read"
    /\ UNCHANGED <<rec_vad, rec_stop_event, is_recording, rec_i, max_chunks,
                   min_duration, audio_buffer, speech_buffer, speech_detected,
                   speech_started, rec_log, rec_result, n_on_speech_start,
                   n_on_speech_end, rec_stop_at,
                   rec_speech_frames, max_duration>>

\* lines 142-144: a read that reports overflow is dropped (`continue`)
RecReadOverflowed ==
    /\ rec_pc = "read"
    /\ rec_i' = AfterOverflow(rec_i)
    /\ rec_log' = Append(rec_log, "overflow")
    /\ rec_pc' = "loop"
    /\ UNCHANGED <<rec_vad, rec_stop_event, is_recording, max_chunks,
                   min_duration, audio_buffer, speech_buffer, speech_detected,
                   speech_started, rec_result, n_on_speech_start,
                   n_on_speech_end, rec_stop_at,
                   rec_speech_frames, max_duration>>

\* lines 142-180: a chunk is read, scored by the detector and filed
RecReadChunk ==
    /\ rec_pc = "read"
    /\ \E lvl \in RecLevels :
         LET chunk == Len(rec_log) + 1
             r == ProcessChunk(rec_vad, [lvl |-> lvl, len |-> VAD_CHUNK_SAMPLES])
         IN /\ rec_vad' = r.det
            /\ rec_log' = Append(rec_log, r.state)
            /\ rec_i' = rec_i + 1
            /\ rec_speech_frames' = rec_speech_frames + IF r.is_speech THEN 1 ELSE 0
            /\ CASE r.state = SPEECH_START ->
                      /\ speech_detected' = TRUE
                      /\ speech_started' = TRUE
                      /\ n_on_speech_start' = n_on_speech_start + 1
                      /\ speech_buffer' = SpliceLookBack(speech_buffer, audio_buffer, chunk)
                      /\ rec_pc' = "loop"
                      /\ UNCHANGED <<audio_buffer, n_on_speech_end>>
                 [] r.state = SPEAKING ->
                      /\ speech_buffer' = IF speech_started
                                          THEN Append(speech_buffer, chunk)
                                          ELSE speech_buffer
                      /\ rec_pc' = "loop"
                      /\ UNCHANGED <<audio_buffer, speech_detected, speech_started,
                                     n_on_speech_start, n_on_speech_end>>
                 [] r.state = SPEECH_END ->
                      /\ speech_buffer' = IF speech_started
                                          THEN Append(speech_buffer, chunk)
                                          ELSE speech_buffer
                      /\ n_on_speech_end' = IF speech_started
                                            THEN n_on_speech_end + 1
                                            ELSE n_on_speech_end
                      /\ rec_pc' = AfterSpeechEnd(speech_started)
                      /\ UNCHANGED <<audio_buffer, speech_detected, speech_started,
                                     n_on_speech_start>>
                 [] OTHER ->
                      /\ audio_buffer' = PushSilence(audio_buffer, chunk)
                      /\ rec_pc' = "loop"
                      /\ UNCHANGED <<speech_buffer, speech_detected, speech_started,
                                     n_on_speech_start, n_on_speech_end>>
    /\ UNCHANGED <<rec_stop_event, is_recording, max_chunks, min_duration,
                   rec_result, rec_stop_at, max_duration>>

\* lines 182-201: finally, then the result is assembled and returned
RecReturn ==
    /\ rec_pc = "post"
    /\ is_recording' = FALSE
    /\ rec_result' = MakeResult(speech_buffer, speech_detected, min_duration)
    /\ rec_pc' = "done"
    /\ UNCHANGED <<rec_vad, rec_stop_event, rec_i, max_chunks, min_duration,
                   audio_buffer, speech_buffer, speech_detected, speech_started,
                   rec_log, n_on_speech_start, n_on_speech_end, rec_stop_at,
                   rec_speech_frames, max_duration>>

\* AudioRecorder.stop(), called from another thread
RecStop ==
    /\ ~rec_stop_event \/ (rec_pc \in {"clear", "loop", "read", "post"} /\ rec_stop_at = -1)
    /\ rec_stop_event' = TRUE
    /\ rec_stop_at' = IF rec_pc \in {"clear", "loop", "read", "post"} /\ rec_stop_at = -1
                      THEN Len(rec_log) ELSE rec_stop_at
    /\ UNCHANGED <<rec_vad, is_recording, rec_pc, rec_i, max_chunks, min_duration,
                   audio_buffer, speech_buffer, speech_detected, speech_started,
                   rec_log, rec_result, n_on_speech_start, n_on_speech_end,
                   rec_speech_frames, max_duration>>

NextRec ==
    \/ RecordUtterance /\ UNCHANGED <<vadVars, playVars, pipeVars, tutorVars, callVars>>
    \/ RecClearStop /\ UNCHANGED <<vadVars, playVars, pipeVars, tutorVars, callVars>>
    \/ RecLoopHead /\ UNCHANGED <<vadVars, playVars, pipeVars, tutorVars, callVars>>
    \/ RecReadOverflowed /\ UNCHANGED <<vadVars, playVars, pipeVars, tutorVars, callVars>>
    \/ RecReadChunk /\ UNCHANGED <<vadVars, playVars, pipeVars, tutorVars, callVars>>
    \/ RecReturn /\ UNCHANGED <<vadVars, playVars, pipeVars, tutorVars, callVars>>
    \/ RecStop /\ UNCHANGED <<vadVars, playVars, pipeVars, tutorVars, callVars>>

SpecRec == InitRec /\ [][NextRec]_vars

(***************************************************************************)
(* SpecLong: record_utterance called with the default min_duration and a   *)
(* max_duration long enough for an utterance of more than 0.3 s, run to    *)
(* its end without a stop() from another thread                            *)
(***************************************************************************)
\* record_utterance(max_duration=...), min_duration left at its default
RecordUtteranceDefault ==
    StartRecording({0, MaxLongTicks \div 2, MaxLongTicks}, {MIN_SPEECH_DURATION_MS})

NextLong ==
    \/ RecordUtteranceDefault /\ UNCHANGED <<vadVars, playVars, pipeVars, tutorVars, callVars>>
    \/ RecClearStop /\ UNCHANGED <<vadVars, playVars, pipeVars, tutorVars, callVars>>
    \/ RecLoopHead /\ UNCHANGED <<vadVars, playVars, pipeVars, tutorVars, callVars>>
    \/ RecReadOverflowed /\ UNCHANGED <<vadVars, playVars, pipeVars, tutorVars, callVars>>
    \/ RecReadChunk /\ UNCHANGED <<vadVars, playVars, pipeVars, tutorVars, callVars>>
    \/ RecReturn /\ UNCHANGED <<vadVars, playVars, pipeVars, tutorVars, callVars>>

SpecLong == InitRec /\ [][NextLong]_vars

(***************************************************************************)
(* SpecPlay: one play_interruptible call on the player's thread, stop()    *)
(* arriving from another thread at any moment                              *)
(***************************************************************************)
\* lengths of the prepared buffer: whole blocks, or a shorter last block
AudioLengths ==
    {b * OutputChunkSize : b \in 1..MaxPlayBlocks}
        \cup {b * OutputChunkSize - 300 : b \in 1..MaxPlayBlocks}

InitPlay ==
    /\ \E used \in BOOLEAN :
          play_vad = IF used
                     THEN FeedSpeech(NewDetector("silero", 1, 1), 1)
                     ELSE NewDetector("silero", 1, 1)
    /\ PlayFields
    /\ VadUnused
    /\ RecUnused
    /\ PipeUnused
    /\ TutorFields
    /\ CallFields

\* play_interruptible, lines 134-138: self.stop() and _was_interrupted = False
PlayInterruptible ==
    /\ play_pc = "idle"
    /\ \E len \in AudioLengths, v \in BOOLEAN :
          /\ audio_len' = len
          /\ has_vad' = v
    /\ play_stop_event' = TRUE
    /\ is_playing' = FALSE
    /\ was_interrupted' = FALSE
    /\ play_pc' = "clear"
    /\ UNCHANGED <<play_vad, audio_pos, chunks_processed, written, mic_log,
                   n_on_interrupt, play_result, play_stop_at, sd_stopped,
                   play_faults, warmup_peak>>

\* lines 139-180: the flag is cleared, _is_playing set, the audio prepared;
\* without a detector playback is handed to _play_blocking, with one the
\* two streams are opened and the detector is reset
PlayClearStop ==
    /\ play_pc = "clear"
    /\ play_stop_event' = FALSE
    /\ is_playing' = TRUE
    /\ audio_pos' = 0
    /\ chunks_processed' = 0
    /\ IF has_vad
       THEN /\ play_vad' = Reset(play_vad)
            /\ play_pc' = "loop"
       ELSE /\ play_vad' = play_vad
            /\ play_pc' = "blocking"
    /\ UNCHANGED <<has_vad, was_interrupted, audio_len, written, mic_log,
                   n_on_interrupt, play_result, play_stop_at, sd_stopped,
                   play_faults, warmup_peak>>

\* lines 161-182, 220-224: creating or starting a stream raises; the handler
\* of the enclosing try hands the buffer to _play_blocking.  The detector has
\* been reset when it is the start, not the creation, that failed.
PlayOpenFails ==
    /\ play_pc = "clear"
    /\ has_vad
    /\ play_stop_event' = FALSE
    /\ is_playing' = TRUE
    /\ audio_pos' = 0
    /\ chunks_processed' = 0
    /\ play_vad' \in {play_vad, Reset(play_vad)}
    /\ play_faults' = Append(play_faults, "open")
    /\ play_pc' = AfterLoopFailure
    /\ UNCHANGED <<has_vad, was_interrupted, audio_len, written, mic_log,
                   n_on_interrupt, play_result, play_stop_at, sd_stopped,
                   warmup_peak>>

\* lines 191, 220-224: output_stream.write raises; the same handler
PlayWriteFails ==
    /\ play_pc = "write"
    /\ play_faults' = Append(play_faults, "write")
    /\ play_pc' = AfterLoopFailure
    /\ UNCHANGED <<play_vad, has_vad, play_stop_event, is_playing, was_interrupted,
                   audio_len, audio_pos, chunks_processed, written, mic_log,
                   n_on_interrupt, play_result, play_stop_at, sd_stopped,
                   warmup_peak>>

\* _play_blocking, lines 105-109: sd.play() raises; the error is printed
\* and the caller returns True
PlayBlockingFails ==
    /\ play_pc = "blocking"
    /\ play_faults' = Append(play_faults, "play")
    /\ is_playing' = FALSE
    /\ play_result' = "true"
    /\ play_pc' = "done"
    /\ UNCHANGED <<play_vad, has_vad, play_stop_event, was_interrupted, audio_len,
                   audio_pos, chunks_processed, written, mic_log, n_on_interrupt,
                   play_stop_at, sd_stopped, warmup_peak>>

\* lines 150-152 and _play_blocking: sd.play(); sd.wait(); return True.
\* sounddevice.stop() from stop() cuts the playback short.
PlayBlocking ==
    /\ play_pc = "blocking"
    /\ \E upto \in IF sd_stopped THEN {0, audio_len} ELSE {audio_len} :
          written' = Append(written, [from |-> 0, to |-> upto])
    /\ is_playing' = FALSE
    /\ play_result' = "true"
    /\ play_pc' = "done"
    /\ UNCHANGED <<play_vad, has_vad, play_stop_event, was_interrupted, audio_len,
                   audio_pos, chunks_processed, mic_log, n_on_interrupt,
                   play_stop_at, sd_stopped,
                   play_faults, warmup_peak>>

\* lines 183-186: the loop condition and the stop check
PlayLoopHead ==
    /\ play_pc = "loop"
    /\ IF ~MoreToPlay(audio_pos, audio_len)
       THEN /\ play_pc' = "exit"
            /\ UNCHANGED was_interrupted
       ELSE IF play_stop_event
            THEN /\ was_interrupted' = TRUE
                 /\ play_pc' = "exit"
            ELSE /\ play_pc' = "write"
                 /\ UNCHANGED was_interrupted
    /\ UNCHANGED <<play_vad, has_vad, play_stop_event, is_playing, audio_len,
                   audio_pos, chunks_processed, written, mic_log, n_on_interrupt,
                   play_result, play_stop_at, sd_stopped,
                   play_faults, warmup_peak>>

\* lines 189-192: one block goes to the output stream
PlayWrite ==
    /\ play_pc = "write"
    /\ written' = Append(written, [from |-> audio_pos,
                                   to |-> ChunkEnd(audio_pos, audio_len)])
    /\ audio_pos' = ChunkEnd(audio_pos, audio_len)
    /\ play_pc' = "mic"
    /\ UNCHANGED <<play_vad, has_vad, play_stop_event, is_playing, was_interrupted,
                   audio_len, chunks_processed, mic_log, n_on_interrupt,
                   play_result, play_stop_at, sd_stopped,
                   play_faults, warmup_peak>>

\* lines 196-197, 212-214: the read overflowed, returned nothing or raised
PlayMicNothing ==
    /\ play_pc = "mic"
    /\ \E k \in {"overflow", "error"} :
          mic_log' = Append(mic_log, [kind |-> k, prob |-> 0])
    /\ play_pc' = AfterMicFailure
    /\ UNCHANGED <<play_vad, has_vad, play_stop_event, is_playing, was_interrupted,
                   audio_len, audio_pos, chunks_processed, written, n_on_interrupt,
                   play_result, play_stop_at, sd_stopped,
                   play_faults, warmup_peak>>

\* lines 198-202: a block read during the warm-up is counted, not scored
PlayMicWarmup ==
    /\ play_pc = "mic"
    /\ ~PastWarmup(chunks_processed + 1)
    /\ chunks_processed' = chunks_processed + 1
    /\ mic_log' = Append(mic_log, [kind |-> "warmup", prob |-> 0])
    /\ \E lvl \in Levels :
          warmup_peak' = IF lvl > warmup_peak THEN lvl ELSE warmup_peak
    /\ play_pc' = "loop"
    /\ UNCHANGED <<play_vad, has_vad, play_stop_event, is_playing, was_interrupted,
                   audio_len, audio_pos, written, n_on_interrupt, play_result,
                   play_stop_at, sd_stopped, play_faults>>

\* lines 203, 212-214: the detector raised on the block; it is ignored
PlayMicDetectorError ==
    /\ play_pc = "mic"
    /\ PastWarmup(chunks_processed + 1)
    /\ chunks_processed' = chunks_processed + 1
    /\ mic_log' = Append(mic_log, [kind |-> "vad_error", prob |-> 0])
    /\ play_pc' = AfterMicFailure
    /\ UNCHANGED <<play_vad, has_vad, play_stop_event, is_playing, was_interrupted,
                   audio_len, audio_pos, written, n_on_interrupt, play_result,
                   play_stop_at, sd_stopped,
                   play_faults, warmup_peak>>

\* lines 198-211: a block after the warm-up is scored; above the
\* interruption threshold the flag is set, on_interrupt called, the loop left
PlayMicScored ==
    /\ play_pc = "mic"
    /\ PastWarmup(chunks_processed + 1)
    /\ chunks_processed' = chunks_processed + 1
    /\ \E lvl \in Levels :
         LET r == ProcessChunk(play_vad, [lvl |-> lvl, len |-> MonitorChunkSamples])
             hit == ExceedsThreshold(r.speech_probability, INTERRUPT_THRESHOLD)
         IN /\ play_vad' = r.det
            /\ mic_log' = Append(mic_log, [kind |-> "scored",
                                           prob |-> r.speech_probability])
            /\ was_interrupted' = (hit \/ was_interrupted)
            /\ n_on_interrupt' = IF hit THEN n_on_interrupt + 1 ELSE n_on_interrupt
            /\ play_pc' = IF hit THEN "exit" ELSE "loop"
    /\ UNCHANGED <<has_vad, play_stop_event, is_playing, audio_len, audio_pos,
                   written, play_result, play_stop_at, sd_stopped,
                   play_faults, warmup_peak>>

\* lines 216-229: the output is drained unless interrupted; finally; return
PlayReturn ==
    /\ play_pc = "exit"
    /\ is_playing' = FALSE
    /\ play_result' = IF was_interrupted THEN "false" ELSE "true"
    /\ play_pc' = "done"
    /\ UNCHANGED <<play_vad, has_vad, play_stop_event, was_interrupted, audio_len,
                   audio_pos, chunks_processed, written, mic_log, n_on_interrupt,
                   play_stop_at, sd_stopped,
                   play_faults, warmup_peak>>

PlayRunning == play_pc \in {"clear", "blocking", "loop", "write", "mic", "exit"}

\* AudioPlayer.stop(), called from another thread
PlayStop ==
    /\ ~play_stop_event \/ (PlayRunning /\ play_stop_at = -1)
    /\ play_stop_event' = TRUE
    /\ is_playing' = FALSE
    /\ sd_stopped' = (sd_stopped \/ play_pc = "blocking")
    /\ play_stop_at' = IF PlayRunning /\ play_stop_at = -1
                       THEN Len(written) ELSE play_stop_at
    /\ UNCHANGED <<play_vad, has_vad, was_interrupted, play_pc, audio_len,
                   audio_pos, chunks_processed, written, mic_log, n_on_interrupt,
                   play_result, play_faults, warmup_peak>>

NextPlay ==
    \/ PlayInterruptible /\ UNCHANGED <<vadVars, recVars, pipeVars, tutorVars, callVars>>
    \/ PlayClearStop /\ UNCHANGED <<vadVars, recVars, pipeVars, tutorVars, callVars>>
    \/ PlayOpenFails /\ UNCHANGED <<vadVars, recVars, pipeVars, tutorVars, callVars>>
    \/ PlayWriteFails /\ UNCHANGED <<vadVars, recVars, pipeVars, tutorVars, callVars>>
    \/ PlayBlockingFails /\ UNCHANGED <<vadVars, recVars, pipeVars, tutorVars, callVars>>
    \/ PlayBlocking /\ UNCHANGED <<vadVars, recVars, pipeVars, tutorVars, callVars>>
    \/ PlayLoopHead /\ UNCHANGED <<vadVars, recVars, pipeVars, tutorVars, callVars>>
    \/ PlayWrite /\ UNCHANGED <<vadVars, recVars, pipeVars, tutorVars, callVars>>
    \/ PlayMicNothing /\ UNCHANGED <<vadVars, recVars, pipeVars, tutorVars, callVars>>
    \/ PlayMicWarmup /\ UNCHANGED <<vadVars, recVars, pipeVars, tutorVars, callVars>>
    \/ PlayMicDetectorError /\ UNCHANGED <<vadVars, recVars, pipeVars, tutorVars, callVars>>
    \/ PlayMicScored /\ UNCHANGED <<vadVars, recVars, pipeVars, tutorVars, callVars>>
    \/ PlayReturn /\ UNCHANGED <<vadVars, recVars, pipeVars, tutorVars, callVars>>
    \/ PlayStop /\ UNCHANGED <<vadVars, recVars, pipeVars, tutorVars, callVars>>

SpecPlay == InitPlay /\ [][NextPlay]_vars

(***************************************************************************)
(* SpecCalls: one AudioPlayer used for several playback calls.  play()     *)
(* runs _play_blocking inline or on a daemon thread; stop() may come from  *)
(* any thread.  play_interruptible is taken as a whole here (SpecPlay has  *)
(* its loop): it ends completed, cut by speech, or cut by the stop flag.   *)
(***************************************************************************)
\* stop(), lines 231-239, as it acts on the runs of _play_blocking:
\* sounddevice.stop() ends whatever is playing
StoppedRunners(rs) == [i \in 1..Len(rs) |-> [rs[i] EXCEPT !.stopped = TRUE]]

InitCalls ==
    /\ CallFields
    /\ PlayUnused
    /\ VadUnused
    /\ RecUnused
    /\ PipeUnused
    /\ TutorFields

\* play(audio, blocking=...), lines 70-71: self.stop()
CallPlay ==
    /\ main_pc = "idle"
    /\ n_calls < MaxCalls
    /\ \E b \in BOOLEAN :
          cur_call' = [no |-> n_calls + 1, kind |-> "play",
                       blocking |-> b, speech |-> FALSE]
    /\ n_calls' = n_calls + 1
    /\ play_stop_event' = TRUE
    /\ sd_stream' = 0
    /\ is_playing' = FALSE
    /\ runners' = StoppedRunners(runners)
    /\ main_pc' = "play_clear"
    /\ UNCHANGED <<was_interrupted, playCallRest>>

\* play(), lines 73-85: the flag is cleared, _is_playing set, and
\* _play_blocking is run inline or handed to a new daemon thread
PlaySetPlaying ==
    /\ main_pc = "play_clear"
    /\ play_stop_event' = FALSE
    /\ is_playing' = TRUE
    /\ runners' = Append(runners, [call |-> cur_call.no, pc |-> "run",
                                   inline |-> cur_call.blocking,
                                   stopped |-> FALSE, waits_on |-> 0])
    /\ main_pc' = IF cur_call.blocking THEN "blocked" ELSE "idle"
    /\ UNCHANGED <<was_interrupted, n_calls, cur_call, sd_stream, playCallRest>>

\* _play_blocking, line 102: sounddevice.play(audio, sample_rate) replaces
\* whatever sounddevice was playing
RunSdPlay(i) ==
    /\ runners[i].pc = "run"
    /\ sd_stream' = runners[i].call
    /\ runners' = [runners EXCEPT ![i].pc = "played"]
    /\ UNCHANGED <<play_stop_event, is_playing, was_interrupted, main_pc,
                   n_calls, cur_call, playCallRest>>

\* _play_blocking, line 103: sounddevice.wait() waits for the playback
\* that is current when it is called
RunSdWait(i) ==
    /\ runners[i].pc = "played"
    /\ runners' = [runners EXCEPT ![i].pc = "wait", ![i].waits_on = sd_stream]
    /\ UNCHANGED <<play_stop_event, is_playing, was_interrupted, main_pc,
                   n_calls, cur_call, sd_stream, playCallRest>>

\* sounddevice.wait() returns: the playback waited for has played to its
\* end, or it was stopped or replaced
RunWaitReturns(i) ==
    /\ runners[i].pc = "wait"
    /\ sd_stream' = IF sd_stream = runners[i].waits_on THEN 0 ELSE sd_stream
    /\ runners' = [runners EXCEPT ![i].pc = "finally"]
    /\ UNCHANGED <<play_stop_event, is_playing, was_interrupted, main_pc,
                   n_calls, cur_call, playCallRest>>

\* _play_blocking, lines 108-109: finally: self._is_playing = False
RunFinally(i) ==
    /\ runners[i].pc = "finally"
    /\ is_playing' = FALSE
    /\ runners' = [runners EXCEPT ![i].pc = "done"]
    /\ main_pc' = IF runners[i].inline THEN "idle" ELSE main_pc
    /\ UNCHANGED <<play_stop_event, was_interrupted, n_calls, cur_call,
                   sd_stream, playCallRest>>

\* play_interruptible, lines 136-137: self.stop(); _was_interrupted = False
CallPlayInterruptible ==
    /\ main_pc = "idle"
    /\ n_calls < MaxCalls
    /\ cur_call' = [no |-> n_calls + 1, kind |-> "play_interruptible",
                    blocking |-> TRUE, speech |-> FALSE]
    /\ n_calls' = n_calls + 1
    /\ play_stop_event' = TRUE
    /\ sd_stream' = 0
    /\ is_playing' = FALSE
    /\ runners' = StoppedRunners(runners)
    /\ was_interrupted' = FALSE
    /\ main_pc' = "pi_clear"
    /\ UNCHANGED playCallRest

\* play_interruptible, lines 138-139
PiSetPlaying ==
    /\ main_pc = "pi_clear"
    /\ play_stop_event' = FALSE
    /\ is_playing' = TRUE
    /\ main_pc' = "pi_loop"
    /\ UNCHANGED <<was_interrupted, n_calls, cur_call, runners, sd_stream,
                   playCallRest>>

\* play_interruptible, lines 183-229: the loop ends because the buffer was
\* played, because a microphone block scored above the threshold, or
\* because the stop flag was found set at the head of the loop
PiEnds ==
    /\ main_pc = "pi_loop"
    /\ \E how \in {"completed", "speech"}
                     \cup (IF play_stop_event THEN {"stopped"} ELSE {}) :
          /\ was_interrupted' = (how # "completed")
          /\ cur_call' = [cur_call EXCEPT !.speech = (how = "speech")]
    /\ is_playing' = FALSE
    /\ main_pc' = "idle"
    /\ UNCHANGED <<play_stop_event, n_calls, runners, sd_stream, playCallRest>>

\* stop(), called between calls or from another thread
CallStop ==
    /\ play_stop_event' = TRUE
    /\ sd_stream' = 0
    /\ is_playing' = FALSE
    /\ runners' = StoppedRunners(runners)
    /\ UNCHANGED <<was_interrupted, main_pc, n_calls, cur_call, playCallRest>>

NextCalls ==
    \/ CallPlay /\ UNCHANGED <<vadVars, recVars, pipeVars, tutorVars>>
    \/ PlaySetPlaying /\ UNCHANGED <<vadVars, recVars, pipeVars, tutorVars>>
    \/ \E i \in 1..Len(runners) :
          RunSdPlay(i) /\ UNCHANGED <<vadVars, recVars, pipeVars, tutorVars>>
    \/ \E i \in 1..Len(runners) :
          RunSdWait(i) /\ UNCHANGED <<vadVars, recVars, pipeVars, tutorVars>>
    \/ \E i \in 1..Len(runners) :
          RunWaitReturns(i) /\ UNCHANGED <<vadVars, recVars, pipeVars, tutorVars>>
    \/ \E i \in 1..Len(runners) :
          RunFinally(i) /\ UNCHANGED <<vadVars, recVars, pipeVars, tutorVars>>
    \/ CallPlayInterruptible /\ UNCHANGED <<vadVars, recVars, pipeVars, tutorVars>>
    \/ PiSetPlaying /\ UNCHANGED <<vadVars, recVars, pipeVars, tutorVars>>
    \/ PiEnds /\ UNCHANGED <<vadVars, recVars, pipeVars, tutorVars>>
    \/ CallStop /\ UNCHANGED <<vadVars, recVars, pipeVars, tutorVars>>

SpecCalls == InitCalls /\ [][NextCalls]_vars

(***************************************************************************)
(* Follow-up scheduler helpers (audio/pipeline.py, tts/synthesizer.py,     *)
(* llm/prompts.py).  Language names and codes are sequences of characters. *)
(***************************************************************************)
EN == <<"e", "n">>
DE == <<"d", "e">>

\* the values native_language takes: the names the profile stores and the
\* ISO codes the GUI falls back to
NativeLanguages ==
    { <<"E", "n", "g", "l", "i", "s", "h">>, <<"G", "e", "r", "m", "a", "n">>, EN, DE }

\* str.lower() on the characters that occur
Lower(c) == CASE c = "E" -> "e" [] c = "G" -> "g" [] OTHER -> c

\* native_language.lower()[:2]
NativeLangCode(name) ==
    LET low == [i \in 1..Len(name) |-> Lower(name[i])]
    IN SubSeq(low, 1, IF Len(low) < 2 THEN Len(low) ELSE 2)

\* KOKORO_LANG_CODES keys
KOKORO_LANG_CODES == { EN, <<"e", "s">>, <<"j", "a">>, <<"z", "h">> }

\* SpeechSynthesizer._get_backend
SynthBackend(lang) == IF lang = DE THEN "piper" ELSE "kokoro"

\* synthesize() of a non-blank text: Kokoro raises ValueError for a language
\* it has no pipeline for; Piper catches its own failures
SynthesizeRaises(lang) ==
    SynthBackend(lang) = "kokoro" /\ lang \notin KOKORO_LANG_CODES

\* get_followup_prompt: tier_prompts.get(tier, FOLLOWUP_TIER1)
FollowupPromptList(tier) == IF tier \in 1..Len(<<1, 2, 3>>) THEN tier ELSE 1

\* get_followup_prompt: the language of the prompt list chosen
FollowupPromptLanguage(native_lang) ==
    IF native_lang \in {EN, DE} THEN native_lang ELSE EN

tier_timeouts ==
    <<FOLLOWUP_TIER1_TIMEOUT, FOLLOWUP_TIER2_TIMEOUT, FOLLOWUP_TIER3_TIMEOUT>>

\* a loop that goes round once more than the tiers allow
LoopContinuesOneMore(tier, max) == tier <= max + 1

\* while current_tier <= max_followup_tier
LoopContinues(tier, max) == tier <= max

\* if enable_followups and current_tier <= max_followup_tier
FollowupDue(enable, tier, max) == enable /\ tier <= max

\* tier_timeouts[current_tier - 1] is out of range
TimeoutIndexError(tier) == tier # 0 /\ tier - 1 >= Len(tier_timeouts)

\* every window after the first as long as the tier's cumulative threshold
TierTimeoutCumulative(enable, tier) ==
    IF tier = 0
    THEN IF enable THEN tier_timeouts[1] ELSE NoFollowupTimeout
    ELSE LET last == Len(tier_timeouts) - 1
             idx == IF tier < last THEN tier ELSE last
         IN tier_timeouts[idx + 1]

\* the listening window of a tier, in seconds
TierTimeout(enable, tier) ==
    IF tier = 0
    THEN IF enable THEN tier_timeouts[1] ELSE NoFollowupTimeout
    ELSE LET last == Len(tier_timeouts) - 1
             idx == IF tier < last THEN tier ELSE last
         IN tier_timeouts[idx + 1] - tier_timeouts[tier]

\* VoiceActivityDetector(sample_rate=AUDIO_SAMPLE_RATE)
PipelineDetector ==
    NewDetector("silero", VAD_SPEECH_PAD_FRAMES, VAD_SILENCE_PAD_FRAMES)

\* a barge-in detector that is the recorder's own detector
InterruptVadShared(rec_id, heap) == rec_id

\* _ensure_components: self._interrupt_vad is a newly constructed detector
InterruptVadNew(rec_id, heap) == Len(heap) + 1

\* the detector after the frames of the given levels, each of a full chunk
RECURSIVE FeedFrames(_, _)
FeedFrames(d, lvls) ==
    IF lvls = <<>> THEN d
    ELSE FeedFrames(ProcessChunk(d, [lvl |-> Head(lvls),
                                     len |-> ExpectedSamples(d)]).det,
                    Tail(lvls))

\* what the microphone gives during a recording: nothing, silence, speech
RecordingFrames == { <<>>, <<0>>, <<2, 2, 2>> }

\* what the microphone gives after the warm-up of a playback
PlaybackFrames == { <<>>, <<0>>, <<2>> }

\* values of max_followup_tier the call is made with
FollowupTierArgs == 0..4

\* what the transcriber returns for a recording with speech
Transcriptions == {"", " ", "hola"}

\* str.strip() leaves nothing
IsBlank(text) == text \in {"", " "}

ES == <<"e", "s">>

\* TargetLanguage values the pipeline is run with: one that Kokoro
\* synthesizes and the one that Piper synthesizes
TargetLanguages == { ES, DE }

\* what synthesize() of a non-blank text can do: KokoroSynthesizer has no
\* handler (unsupported language, import or pipeline failure leave the
\* call); PiperSynthesizer catches every failure and returns silence
SynthOutcomes(lang) ==
    IF SynthBackend(lang) = "piper" THEN {"audio", "silence"}
    ELSE IF SynthesizeRaises(lang) THEN {"raise"}
    ELSE {"audio", "raise"}

\* failures of self._client.chat: the server answers with an error, or the
\* server cannot be reached
ChatErrors == {"ResponseError", "ConnectionError"}

\* LanguageTutor.respond: `except self._client.ResponseError`
RespondCatches(err) == err = "ResponseError"

\* an interrupted prompt that is followed by the next tier's prompt
AfterPromptInterruptedRepeats == "no_speech"

\* `continue` after an interrupted follow-up prompt
AfterPromptInterrupted == "loop"

\* a blank transcription handled like a recording without speech
AfterBlankTranscriptionPrompts == "no_speech"

\* `current_tier += 1; continue` after a blank transcription
AfterBlankTranscription == "loop"

(***************************************************************************)
(* SpecPipe: one process_turn_with_followup call on the pipeline's thread, *)
(* AudioPipeline.stop() arriving from another thread at any moment.  The   *)
(* recorder and the player appear through their stop flags and the         *)
(* outcomes of their calls.                                                *)
(***************************************************************************)
InitPipe ==
    /\ enable_barge_in \in BOOLEAN
    /\ native_language \in NativeLanguages
    /\ target_language \in TargetLanguages
    /\ PipeFields
    /\ VadUnused
    /\ RecUnused
    /\ PlayUnused
    /\ TutorFields
    /\ CallFields

PipeRunning == pipe_pc \notin {"idle", "done"}

\* what no step of the call changes
pipeArgs == <<enable_followups, max_followup_tier, enable_barge_in,
              native_language, target_language>>

\* lines 282-292
ProcessTurnWithFollowup ==
    /\ pipe_pc = "idle"
    /\ enable_followups' \in BOOLEAN
    /\ max_followup_tier' \in FollowupTierArgs
    /\ LET heap == <<PipelineDetector>>
       IN /\ recorder_vad' = 1
          /\ interrupt_vad' = IF enable_barge_in
                               THEN InterruptVadNew(1, heap) ELSE 0
          /\ vad_heap' = IF enable_barge_in
                          THEN Append(heap, PipelineDetector) ELSE heap
    /\ current_tier' = 0
    /\ turn' = EmptyTurn
    /\ pipe_pc' = "loop"
    /\ UNCHANGED <<pipe_state, enable_barge_in, native_language, target_language,
                   playing_what, recordings, prompts, n_responses, speech_seen,
                   pipe_raised, pipe_stop_at, pipe_log, pipe_faults>>
    /\ UNCHANGED <<rec_stop_event, is_recording, play_stop_event, is_playing>>

\* lines 294, 394-396: the tiers are exhausted
PipeExhausted ==
    /\ pipe_pc = "loop"
    /\ ~LoopContinues(current_tier, max_followup_tier)
    /\ pipe_state' = "idle"
    /\ pipe_log' = Append(pipe_log, "return")
    /\ pipe_pc' = "done"
    /\ UNCHANGED <<pipeArgs, current_tier, turn, playing_what, recordings,
                   prompts, n_responses, speech_seen, pipe_raised, pipe_stop_at,
                   pipe_faults>>
    /\ UNCHANGED <<rec_stop_event, is_recording, play_stop_event, is_playing>>
    /\ UNCHANGED vadRefs

\* lines 298-300: IndexError leaves the call
PipeTimeoutIndexError ==
    /\ pipe_pc = "loop"
    /\ LoopContinues(current_tier, max_followup_tier)
    /\ TimeoutIndexError(current_tier)
    /\ pipe_raised' = "IndexError"
    /\ pipe_log' = Append(pipe_log, "raise")
    /\ pipe_pc' = "done"
    /\ UNCHANGED <<pipeArgs, pipe_state, current_tier, turn, playing_what,
                   recordings, prompts, n_responses, speech_seen, pipe_stop_at,
                   pipe_faults>>
    /\ UNCHANGED <<rec_stop_event, is_recording, play_stop_event, is_playing>>
    /\ UNCHANGED vadRefs

\* lines 294-310: the timeout is computed and record_utterance entered
\* (recorder.py up to line 127)
PipeListen ==
    /\ pipe_pc = "loop"
    /\ LoopContinues(current_tier, max_followup_tier)
    /\ ~TimeoutIndexError(current_tier)
    /\ pipe_state' = "listening"
    /\ recordings' = Append(recordings, TierTimeout(enable_followups, current_tier))
    /\ pipe_log' = Append(pipe_log, "listen")
    /\ is_recording' = TRUE
    /\ pipe_pc' = "rec_clear"
    /\ UNCHANGED <<pipeArgs, current_tier, turn, playing_what, prompts,
                   n_responses, speech_seen, pipe_raised, pipe_stop_at,
                   pipe_faults>>
    /\ UNCHANGED <<rec_stop_event, play_stop_event, is_playing>>
    /\ vad_heap' = [vad_heap EXCEPT ![recorder_vad] = Reset(@)]
    /\ UNCHANGED <<recorder_vad, interrupt_vad>>

\* recorder.py line 128
PipeRecClearStop ==
    /\ pipe_pc = "rec_clear"
    /\ rec_stop_event' = FALSE
    /\ pipe_pc' = "recording"
    /\ UNCHANGED <<pipeRest, is_recording, play_stop_event, is_playing>>
    /\ UNCHANGED vadRefs

\* recorder.py lines 137-201: the recording ends, with or without speech;
\* a window of no frames cannot hold speech
PipeRecordingEnds ==
    /\ pipe_pc = "recording"
    /\ \E frames \in IF MaxChunksOf(1000 * recordings[Len(recordings)]) > 0
                    THEN RecordingFrames ELSE {<<>>} :
         LET d == FeedFrames(vad_heap[recorder_vad], frames)
         IN /\ vad_heap' = [vad_heap EXCEPT ![recorder_vad] = d]
            /\ \E speech \in IF d.is_speaking THEN BOOLEAN ELSE {FALSE} :
                  /\ speech_seen' = (speech_seen \/ speech)
                  /\ pipe_pc' = IF speech THEN "transcribe" ELSE "no_speech"
    /\ is_recording' = FALSE
    /\ UNCHANGED <<pipeArgs, pipe_state, current_tier, turn, playing_what,
                   recordings, prompts, n_responses, pipe_raised, pipe_stop_at,
                   pipe_log, pipe_faults>>
    /\ UNCHANGED <<rec_stop_event, play_stop_event, is_playing>>
    /\ UNCHANGED <<recorder_vad, interrupt_vad>>

\* lines 312-327: transcription; a blank one advances the tier
PipeTranscribe ==
    /\ pipe_pc = "transcribe"
    /\ pipe_state' = "transcribing"
    /\ \E text \in Transcriptions :
          /\ turn' = [turn EXCEPT !.user_audio = "audio", !.user_text = text]
          /\ current_tier' = IF IsBlank(text) THEN current_tier + 1 ELSE current_tier
          /\ pipe_log' = pipe_log \o IF IsBlank(text) THEN <<"transcribe", "blank">>
                                     ELSE <<"transcribe">>
          /\ pipe_pc' = IF IsBlank(text) THEN AfterBlankTranscription ELSE "respond"
    /\ UNCHANGED <<pipeArgs, playing_what, recordings, prompts, n_responses,
                   speech_seen, pipe_raised, pipe_stop_at, pipe_faults>>
    /\ UNCHANGED <<rec_stop_event, is_recording, play_stop_event, is_playing>>
    /\ UNCHANGED vadRefs

\* lines 329-332 with tutor.py 171-215: the tutor answers, or answers with
\* its apology when the chat call raised ResponseError
PipeRespond ==
    /\ pipe_pc = "respond"
    /\ pipe_state' = "thinking"
    /\ \/ /\ turn' = [turn EXCEPT !.tutor_text = "reply"]
          /\ UNCHANGED pipe_faults
       \/ \E err \in ChatErrors :
             /\ RespondCatches(err)
             /\ turn' = [turn EXCEPT !.tutor_text = "apology"]
             /\ pipe_faults' = Append(pipe_faults, "respond")
    /\ n_responses' = n_responses + 1
    /\ pipe_log' = Append(pipe_log, "respond")
    /\ pipe_pc' = "synth"
    /\ UNCHANGED <<pipeArgs, current_tier, playing_what, recordings, prompts,
                   speech_seen, pipe_raised, pipe_stop_at>>
    /\ UNCHANGED <<rec_stop_event, is_recording, play_stop_event, is_playing>>
    /\ UNCHANGED vadRefs

\* lines 329-331 with tutor.py 188-215: the chat call raises something
\* respond() has no handler for, and the exception leaves the turn
PipeRespondRaises ==
    /\ pipe_pc = "respond"
    /\ pipe_state' = "thinking"
    /\ \E err \in ChatErrors :
          /\ ~RespondCatches(err)
          /\ pipe_raised' = err
    /\ pipe_faults' = Append(pipe_faults, "respond")
    /\ pipe_log' = Append(pipe_log, "raise")
    /\ pipe_pc' = "done"
    /\ UNCHANGED <<pipeArgs, current_tier, turn, playing_what, recordings,
                   prompts, n_responses, speech_seen, pipe_stop_at>>
    /\ UNCHANGED <<rec_stop_event, is_recording, play_stop_event, is_playing>>
    /\ UNCHANGED vadRefs

\* lines 334-354: the response is synthesized (Piper may substitute
\* silence) and the player entered (player.py: self.stop() of play /
\* play_interruptible)
PipeSynthesize ==
    /\ pipe_pc = "synth"
    /\ pipe_state' = "speaking"
    /\ \E out \in SynthOutcomes(target_language) \ {"raise"} :
          /\ turn' = [turn EXCEPT !.tutor_audio = out]
          /\ pipe_faults' = IF out = "silence"
                            THEN Append(pipe_faults, "synthesize")
                            ELSE pipe_faults
    /\ pipe_log' = pipe_log \o <<"synthesize", "play">>
    /\ playing_what' = "response"
    /\ play_stop_event' = TRUE
    /\ is_playing' = FALSE
    /\ pipe_pc' = "play_clear"
    /\ UNCHANGED <<pipeArgs, current_tier, recordings, prompts, n_responses,
                   speech_seen, pipe_raised, pipe_stop_at>>
    /\ UNCHANGED <<rec_stop_event, is_recording>>
    /\ UNCHANGED vadRefs

\* lines 334-339: the synthesizer raises and the exception leaves the turn
PipeSynthesizeRaises ==
    /\ pipe_pc = "synth"
    /\ "raise" \in SynthOutcomes(target_language)
    /\ pipe_state' = "speaking"
    /\ pipe_raised' = "SynthesisError"
    /\ pipe_faults' = Append(pipe_faults, "synthesize")
    /\ pipe_log' = Append(pipe_log, "raise")
    /\ pipe_pc' = "done"
    /\ UNCHANGED <<pipeArgs, current_tier, turn, playing_what, recordings,
                   prompts, n_responses, speech_seen, pipe_stop_at>>
    /\ UNCHANGED <<rec_stop_event, is_recording, play_stop_event, is_playing>>
    /\ UNCHANGED vadRefs

\* lines 361-363: no speech and no follow-up due
PipeNoFollowup ==
    /\ pipe_pc = "no_speech"
    /\ ~FollowupDue(enable_followups, current_tier + 1, max_followup_tier)
    /\ current_tier' = current_tier + 1
    /\ pipe_pc' = "loop"
    /\ UNCHANGED <<pipeArgs, pipe_state, turn, playing_what, recordings, prompts,
                   n_responses, speech_seen, pipe_raised, pipe_stop_at,
                   pipe_log, pipe_faults>>
    /\ UNCHANGED <<rec_stop_event, is_recording, play_stop_event, is_playing>>
    /\ UNCHANGED vadRefs

\* lines 361-379: the synthesizer raises for the language code derived
PipeFollowupSynthRaises ==
    /\ pipe_pc = "no_speech"
    /\ FollowupDue(enable_followups, current_tier + 1, max_followup_tier)
    /\ "raise" \in SynthOutcomes(NativeLangCode(native_language))
    /\ current_tier' = current_tier + 1
    /\ pipe_state' = "followup"
    /\ pipe_raised' = IF SynthesizeRaises(NativeLangCode(native_language))
                      THEN "ValueError" ELSE "SynthesisError"
    /\ pipe_faults' = Append(pipe_faults, "prompt")
    /\ pipe_log' = Append(pipe_log, "raise")
    /\ pipe_pc' = "done"
    /\ UNCHANGED <<pipeArgs, turn, playing_what, recordings, prompts,
                   n_responses, speech_seen, pipe_stop_at>>
    /\ UNCHANGED <<rec_stop_event, is_recording, play_stop_event, is_playing>>
    /\ UNCHANGED vadRefs

\* lines 361-392: the follow-up prompt is chosen, synthesized and handed to
\* the player
PipeFollowup ==
    /\ pipe_pc = "no_speech"
    /\ FollowupDue(enable_followups, current_tier + 1, max_followup_tier)
    /\ SynthOutcomes(NativeLangCode(native_language)) # {"raise"}
    /\ current_tier' = current_tier + 1
    /\ pipe_state' = "followup"
    /\ prompts' = Append(prompts,
            [tier |-> current_tier + 1,
             list |-> FollowupPromptList(current_tier + 1),
             text |-> FollowupPromptLanguage(NativeLangCode(native_language)),
             voice |-> NativeLangCode(native_language)])
    /\ pipe_log' = Append(pipe_log, "prompt")
    /\ playing_what' = "prompt"
    /\ play_stop_event' = TRUE
    /\ is_playing' = FALSE
    /\ pipe_pc' = "play_clear"
    /\ UNCHANGED <<pipeArgs, turn, recordings, n_responses, speech_seen,
                   pipe_raised, pipe_stop_at, pipe_faults>>
    /\ UNCHANGED <<rec_stop_event, is_recording>>
    /\ UNCHANGED vadRefs

\* player.py lines 73-74 / 139-140
PipePlayClearStop ==
    /\ pipe_pc = "play_clear"
    /\ play_stop_event' = FALSE
    /\ is_playing' = TRUE
    /\ pipe_pc' = "playing"
    /\ UNCHANGED <<pipeRest, rec_stop_event, is_recording>>
    /\ vad_heap' = IF enable_barge_in /\ interrupt_vad # 0
                    THEN [vad_heap EXCEPT ![interrupt_vad] = Reset(@)]
                    ELSE vad_heap
    /\ UNCHANGED <<recorder_vad, interrupt_vad>>

\* lines 381-392: the prompt's playback ends; play_interruptible reports
\* whether it completed, play() reports nothing
PipePromptPlayed ==
    /\ pipe_pc = "playing"
    /\ playing_what = "prompt"
    /\ is_playing' = FALSE
    /\ \E completed \in IF enable_barge_in /\ interrupt_vad # 0
                       THEN BOOLEAN ELSE {TRUE} :
          /\ pipe_log' = IF completed THEN pipe_log
                         ELSE Append(pipe_log, "interrupted")
          /\ pipe_pc' = IF completed THEN "loop" ELSE AfterPromptInterrupted
    /\ UNCHANGED <<pipeArgs, pipe_state, current_tier, turn, playing_what,
                   recordings, prompts, n_responses, speech_seen, pipe_raised,
                   pipe_stop_at, pipe_faults>>
    /\ UNCHANGED <<rec_stop_event, is_recording, play_stop_event>>
    /\ \E frames \in IF enable_barge_in /\ interrupt_vad # 0
                    THEN PlaybackFrames ELSE {<<>>} :
          vad_heap' = IF frames = <<>> THEN vad_heap
                      ELSE [vad_heap EXCEPT ![interrupt_vad] = FeedFrames(@, frames)]
    /\ UNCHANGED <<recorder_vad, interrupt_vad>>

\* lines 342-358: the response's playback ends and the turn is returned
PipeResponsePlayed ==
    /\ pipe_pc = "playing"
    /\ playing_what = "response"
    /\ \E completed \in IF enable_barge_in THEN BOOLEAN ELSE {TRUE} :
          turn' = [turn EXCEPT !.was_interrupted = ~completed, !.state = "idle"]
    /\ is_playing' = FALSE
    /\ pipe_state' = "idle"
    /\ pipe_log' = Append(pipe_log, "return")
    /\ pipe_pc' = "done"
    /\ UNCHANGED <<pipeArgs, current_tier, playing_what, recordings, prompts,
                   n_responses, speech_seen, pipe_raised, pipe_stop_at,
                   pipe_faults>>
    /\ UNCHANGED <<rec_stop_event, is_recording, play_stop_event>>
    /\ \E frames \in IF enable_barge_in /\ interrupt_vad # 0
                    THEN PlaybackFrames ELSE {<<>>} :
          vad_heap' = IF frames = <<>> THEN vad_heap
                      ELSE [vad_heap EXCEPT ![interrupt_vad] = FeedFrames(@, frames)]
    /\ UNCHANGED <<recorder_vad, interrupt_vad>>

\* AudioPipeline.stop(), called from another thread
PipeStop ==
    /\ \/ ~rec_stop_event
       \/ ~play_stop_event
       \/ pipe_state # "idle"
       \/ (PipeRunning /\ pipe_stop_at = NotStopped)
    /\ rec_stop_event' = TRUE
    /\ play_stop_event' = TRUE
    /\ is_playing' = FALSE
    /\ pipe_state' = "idle"
    /\ pipe_stop_at' = IF PipeRunning /\ pipe_stop_at = NotStopped
                       THEN [recordings |-> Len(recordings),
                             prompts |-> Len(prompts),
                             responses |-> n_responses]
                       ELSE pipe_stop_at
    /\ UNCHANGED <<pipe_pc, pipeArgs, current_tier, turn, playing_what,
                   recordings, prompts, n_responses, speech_seen, pipe_raised,
                   is_recording, pipe_log, pipe_faults>>
    /\ UNCHANGED vadRefs

NextPipe ==
    \/ ProcessTurnWithFollowup /\ UNCHANGED <<vadVars, recRest, playRest, tutorVars, callVars>>
    \/ PipeExhausted /\ UNCHANGED <<vadVars, recRest, playRest, tutorVars, callVars>>
    \/ PipeTimeoutIndexError /\ UNCHANGED <<vadVars, recRest, playRest, tutorVars, callVars>>
    \/ PipeListen /\ UNCHANGED <<vadVars, recRest, playRest, tutorVars, callVars>>
    \/ PipeRecClearStop /\ UNCHANGED <<vadVars, recRest, playRest, tutorVars, callVars>>
    \/ PipeRecordingEnds /\ UNCHANGED <<vadVars, recRest, playRest, tutorVars, callVars>>
    \/ PipeTranscribe /\ UNCHANGED <<vadVars, recRest, playRest, tutorVars, callVars>>
    \/ PipeRespond /\ UNCHANGED <<vadVars, recRest, playRest, tutorVars, callVars>>
    \/ PipeRespondRaises /\ UNCHANGED <<vadVars, recRest, playRest, tutorVars, callVars>>
    \/ PipeSynthesize /\ UNCHANGED <<vadVars, recRest, playRest, tutorVars, callVars>>
    \/ PipeSynthesizeRaises /\ UNCHANGED <<vadVars, recRest, playRest, tutorVars, callVars>>
    \/ PipeNoFollowup /\ UNCHANGED <<vadVars, recRest, playRest, tutorVars, callVars>>
    \/ PipeFollowupSynthRaises /\ UNCHANGED <<vadVars, recRest, playRest, tutorVars, callVars>>
    \/ PipeFollowup /\ UNCHANGED <<vadVars, recRest, playRest, tutorVars, callVars>>
    \/ PipePlayClearStop /\ UNCHANGED <<vadVars, recRest, playRest, tutorVars, callVars>>
    \/ PipePromptPlayed /\ UNCHANGED <<vadVars, recRest, playRest, tutorVars, callVars>>
    \/ PipeResponsePlayed /\ UNCHANGED <<vadVars, recRest, playRest, tutorVars, callVars>>
    \/ PipeStop /\ UNCHANGED <<vadVars, recRest, playRest, tutorVars, callVars>>

SpecPipe == InitPipe /\ [][NextPipe]_vars

\* the thread inside the call keeps running: every operation it waits for
\* (a recording, a transcription, a playback) returns
SpecPipeFair == SpecPipe /\ WF_vars(NextPipe)

(***************************************************************************)
(* SpecTutor: one LanguageTutor; respond() and reset_conversation() are    *)
(* called in any order, the chat request succeeding or failing             *)
(***************************************************************************)
\* Message(role=..., content=...): the content is identified by the
\* respond() call it belongs to
Message(role, call) == [role |-> role, call |-> call]

\* _trim_history: while too long, pop the first message and, if any is
\* left, the next one
RECURSIVE TrimHistory(_)
TrimHistory(h) ==
    IF Len(h) > MAX_CONVERSATION_HISTORY
    THEN LET h1 == Tail(h)
         IN TrimHistory(IF h1 # <<>> THEN Tail(h1) ELSE h1)
    ELSE h

\* the messages a trim removed: the front of the list before it
Removed(before, after) == SubSeq(before, 1, Len(before) - Len(after))

InitTutor ==
    /\ TutorFields
    /\ CallFields
    /\ VadUnused
    /\ RecUnused
    /\ PlayUnused
    /\ PipeUnused

\* respond(), lines 180-209: the user message is appended, the chat call
\* answers, the assistant message is appended and the history trimmed
TutorRespond ==
    /\ tutor_calls < MaxResponds
    /\ LET n == tutor_calls + 1
           full == history \o <<Message("user", n), Message("assistant", n)>>
       IN /\ history' = TrimHistory(full)
          /\ evicted' = Removed(full, TrimHistory(full))
          /\ tutor_calls' = n
    /\ tutor_raised' = FALSE
    /\ UNCHANGED chat_failures

\* respond(), lines 180-196 and 211-215: the user message is appended and
\* the chat call fails; ResponseError is answered with the apology, any
\* other exception leaves respond()
TutorRespondFails ==
    /\ tutor_calls < MaxResponds
    /\ chat_failures < MaxChatFailures
    /\ history' = Append(history, Message("user", tutor_calls + 1))
    /\ tutor_calls' = tutor_calls + 1
    /\ chat_failures' = chat_failures + 1
    /\ \E err \in ChatErrors : tutor_raised' = ~RespondCatches(err)
    /\ evicted' = <<>>

\* reset_conversation(), lines 143-152
TutorResetConversation ==
    /\ history # <<>>
    /\ tutor_calls < MaxResponds
    /\ history' = <<>>
    /\ evicted' = <<>>
    /\ tutor_raised' = FALSE
    /\ UNCHANGED <<tutor_calls, chat_failures>>

NextTutor ==
    \/ TutorRespond /\ UNCHANGED <<vadVars, recVars, playVars, pipeVars, callVars>>
    \/ TutorRespondFails /\ UNCHANGED <<vadVars, recVars, playVars, pipeVars, callVars>>
    \/ TutorResetConversation /\ UNCHANGED <<vadVars, recVars, playVars, pipeVars, callVars>>

SpecTutor == InitTutor /\ [][NextTutor]_vars

(***************************************************************************)
(* Properties of the detector (SpecVad)                                    *)
(***************************************************************************)
\* length of the run of consecutive frames with is_speech = b ending at i
RunEndingAt(i, b) ==
    LET others == {j \in 1..i : hist[j].is_speech # b}
    IN IF others = {} THEN i
       ELSE i - (CHOOSE j \in others : \A k \in others : k <= j)

\* a SPEECH_START was returned before frame i and no SPEECH_END since
SpeakingBefore(i) ==
    \E k \in 1..(i - 1) :
        /\ hist[k].state = SPEECH_START
        /\ \A j \in (k + 1)..(i - 1) : hist[j].state # SPEECH_END

\* C1: SPEECH_START is returned exactly once per run of speech_pad_frames or
\* more consecutive speech frames that begins while not speaking (on the
\* frame that completes the pad); every later frame returns SPEAKING until
\* silence_pad_frames consecutive non-speech frames have been seen, and that
\* run of non-speech frames produces exactly one SPEECH_END.
C1_HysteresisBoundaries ==
    /\ \A i \in 1..Len(hist) :
         /\ ~SpeakingBefore(i) =>
               hist[i].state =
                 IF RunEndingAt(i, TRUE) >= det.speech_pad_frames
                 THEN SPEECH_START ELSE SILENCE
         /\ SpeakingBefore(i) =>
               hist[i].state =
                 IF RunEndingAt(i, FALSE) >= det.silence_pad_frames
                 THEN SPEECH_END ELSE SPEAKING
    /\ \A i, j \in 1..Len(hist) :
         (i < j /\ hist[i].state = SPEECH_START /\ hist[j].state = SPEECH_START)
            => \E k \in (i + 1)..(j - 1) : ~hist[k].is_speech
    /\ \A i, j \in 1..Len(hist) :
         (i < j /\ hist[i].state = SPEECH_END /\ hist[j].state = SPEECH_END)
            => \E k \in (i + 1)..(j - 1) : hist[k].is_speech

\* a detector with a pad of two that started, ended and started again
C1_Witness ==
    /\ det.speech_pad_frames + det.silence_pad_frames >= 3
    /\ \E i, j, k \in 1..Len(hist) :
         /\ i < j /\ j < k
         /\ hist[i].state = SPEECH_START
         /\ hist[j].state = SPEECH_END
         /\ hist[k].state = SPEECH_START

\* C10: after reset(), the detector returns for any frame sequence the same
\* states (and ends with the same is_speaking) as a freshly constructed
\* detector with the same parameters fed the same frames.
C10_ResetLikeFresh ==
    resets > 0 =>
        /\ Len(hist) = Len(shist)
        /\ \A i \in 1..Len(hist) : hist[i].state = shist[i]
        /\ det.is_speaking = shadow.is_speaking

\* reset() hit a speaking detector with a warm model, and frames followed
C10_Witness ==
    /\ resets > 0
    /\ before_reset.is_speaking
    /\ before_reset.warm
    /\ Len(hist) >= 3
    /\ \E i \in 1..Len(hist) : hist[i].state = SPEECH_START

\* C11: on every frame a speech frame increments the speech count and zeroes
\* the silence count, a non-speech frame the reverse; while not speaking the
\* frame returns SPEECH_START exactly when the speech count reaches
\* speech_pad_frames and SILENCE otherwise; while speaking it returns
\* SPEECH_END exactly when the silence count reaches silence_pad_frames and
\* SPEAKING otherwise.
C11_TransitionTable ==
    [][Len(hist') = Len(hist) + 1 =>
         LET e == hist'[Len(hist')]
         IN /\ e.is_speech =>
                  /\ det'.speech_frame_count = det.speech_frame_count + 1
                  /\ det'.silence_frame_count = 0
            /\ ~e.is_speech =>
                  /\ det'.silence_frame_count = det.silence_frame_count + 1
                  /\ det'.speech_frame_count = 0
            /\ ~det.is_speaking =>
                  e.state = IF det'.speech_frame_count = det.speech_pad_frames
                            THEN SPEECH_START ELSE SILENCE
            /\ det.is_speaking =>
                  e.state = IF det'.silence_frame_count = det.silence_pad_frames
                            THEN SPEECH_END ELSE SPEAKING
            /\ det'.is_speaking = (e.state \in {SPEECH_START, SPEAKING})
    ]_vars

\* every row of the table was taken by a detector with pads of two, and a
\* run of speech was broken before it reached the pad
C11_Witness ==
    /\ det.speech_pad_frames = 2
    /\ det.silence_pad_frames = 2
    /\ \A st \in SpeechState : \E i \in 1..Len(hist) : hist[i].state = st
    /\ \E i \in 2..Len(hist) :
         /\ hist[i - 1].is_speech /\ hist[i - 1].state = SILENCE
         /\ ~hist[i].is_speech /\ hist[i].state = SILENCE

\* C12: process_chunk on a frame of a wrong length raises for that call and
\* leaves the counters, is_speaking and the model as they were; no result is
\* produced for the frame.
C12_WrongLengthRejected ==
    [][(hist' = hist /\ resets' = resets /\ <<det, shadow, vad_raised>>' # <<det, shadow, vad_raised>>)
          => (vad_raised' /\ det' = det)]_vars

\* a frame of a wrong length was rejected in the middle of an utterance
C12_Witness ==
    /\ vad_raised
    /\ det.is_speaking
    /\ det.speech_frame_count >= 2
    /\ Len(hist) >= 2

\* C28: a reset() that directly follows a reset() leaves the detector
\* (both counters, is_speaking and the backend model state) as the first
\* one left it, whatever state the first one found.
C28_ResetIdempotent ==
    [][(resets' = resets + 1 /\ resets > 0 /\ hist = <<>> /\ ~vad_raised)
          => det' = det]_vars

\* two reset() calls in a row on a TEN VAD detector that was speaking, its
\* model loaded and warm
C28_Witness ==
    /\ double_reset.twice
    /\ double_reset.is_speaking
    /\ double_reset.warm
    /\ det.kind = "ten_vad"
    /\ ~det.loaded

\* both counters are non-negative and at most one of them is non-zero
CountersExclusive(d) ==
    /\ d.speech_frame_count >= 0
    /\ d.silence_frame_count >= 0
    /\ d.speech_frame_count = 0 \/ d.silence_frame_count = 0

\* exactly one of the two counters is zero
OneCounterRuns(d) ==
    (d.speech_frame_count = 0) # (d.silence_frame_count = 0)

\* C40 as stated: after any sequence of process_chunk and reset calls the
\* counters are non-negative and at most one is non-zero, and once
\* process_chunk was called since the last reset, whether or not the call
\* raised, exactly one of them is zero.
C40_OneCounterRunsAfterAnyCall ==
    /\ CountersExclusive(det)
    /\ (hist # <<>> \/ vad_raised) => OneCounterRuns(det)

\* C40: after any sequence of process_chunk and reset calls the counters
\* are non-negative and at most one is non-zero; exactly one of them is
\* zero once a process_chunk call has returned a result since the last
\* reset, and both are zero until then.
C40_OneCounterRuns ==
    /\ CountersExclusive(det)
    /\ hist # <<>> => OneCounterRuns(det)
    /\ hist = <<>> => (det.speech_frame_count = 0 /\ det.silence_frame_count = 0)

\* after a reset a TEN VAD detector heard speech, then silence, and then
\* rejected a frame of the wrong length
C40_Witness ==
    /\ det.kind = "ten_vad"
    /\ resets > 0
    /\ vad_raised
    /\ Len(hist) >= 2
    /\ hist[1].is_speech /\ ~hist[Len(hist)].is_speech
    /\ det.silence_frame_count > 0 /\ det.speech_frame_count = 0

\* the hysteresis part of a detector
Hysteresis(d) ==
    [speech_frame_count |-> d.speech_frame_count,
     silence_frame_count |-> d.silence_frame_count,
     is_speaking |-> d.is_speaking]

\* C33: the Silero detector's own _update_state and reset, and the
\* BaseVADDetector ones the TEN VAD backend inherits, are the same state
\* machine: given the same is_speech outcomes and resets with equal pads,
\* the two return the same states and hold the same counters and
\* is_speaking.
C33_SameStateMachine ==
    /\ Hysteresis(twin) = Hysteresis(det)
    /\ thist = [i \in 1..Len(hist) |-> hist[i].state]

\* a Silero detector and its TEN VAD twin were reset while speaking and
\* then went through a whole utterance
C33_Witness ==
    /\ det.kind = "silero" /\ twin.kind = "ten_vad"
    /\ resets > 0 /\ before_reset.is_speaking
    /\ \E i, j \in 1..Len(thist) :
          i < j /\ thist[i] = SPEECH_START /\ thist[j] = SPEECH_END
    /\ ~twin.is_speaking
    /\ twin.silence_frame_count > 0

(***************************************************************************)
(* Properties of the recorder (SpecRec)                                    *)
(***************************************************************************)
Min(a, b) == IF a <= b THEN a ELSE b

\* the frame numbers a..b in order
FrameRange(a, b) == [i \in 1..(b - a + 1) |-> a + i - 1]

\* frames the look-back can contribute: audio_buffer[-PRE:] of a buffer
\* that never holds more than MAX frames
LookBackCapacity ==
    IF VAD_PRE_SPEECH_BUFFER_CHUNKS = 0 THEN VAD_MAX_SILENCE_BUFFER_CHUNKS
    ELSE Min(VAD_PRE_SPEECH_BUFFER_CHUNKS, VAD_MAX_SILENCE_BUFFER_CHUNKS)

NoOverflow == \A i \in 1..Len(rec_log) : rec_log[i] # "overflow"

\* C2: record_utterance never reads more than max_chunks frames from the
\* stream, whatever the detector returns and whether or not stop() is
\* called; reads that report overflow count toward the limit.
C2_ReadsBoundedByMaxChunks ==
    /\ Len(rec_log) <= max_chunks
    /\ rec_i <= max_chunks

\* the whole budget was read: speech began and never ended, a read
\* overflowed, nobody called stop()
C2_Witness ==
    /\ rec_pc = "done"
    /\ max_chunks >= 4
    /\ Len(rec_log) = max_chunks
    /\ rec_stop_at = -1 /\ ~rec_stop_event
    /\ speech_started
    /\ \A i \in 1..Len(rec_log) : rec_log[i] # SPEECH_END
    /\ \E i \in 1..Len(rec_log) : rec_log[i] = "overflow"

\* C3: with SPEECH_START at frame K and SPEECH_END at frame E = K+M and no
\* overflowed read, the returned audio is the look-back window (the frames
\* immediately before K, at most the look-back capacity) followed by the
\* frames K..E, each once and in arrival order.
C3_UtteranceAudio ==
    (rec_pc = "done" /\ NoOverflow) =>
        \A K, E \in 1..Len(rec_log) :
            (rec_log[K] = SPEECH_START /\ rec_log[E] = SPEECH_END) =>
                rec_result.audio =
                    FrameRange(K - Min(K - 1, LookBackCapacity), E)

\* speech started late enough for the look-back buffer to have evicted
\* frames, and ended two or more frames later
C3_Witness ==
    /\ rec_pc = "done" /\ NoOverflow
    /\ \E K, E \in 1..Len(rec_log) :
          /\ rec_log[K] = SPEECH_START /\ rec_log[E] = SPEECH_END
          /\ K > VAD_MAX_SILENCE_BUFFER_CHUNKS + 1
          /\ E = Len(rec_log)
          /\ Len(rec_result.audio) = VAD_PRE_SPEECH_BUFFER_CHUNKS + (E - K) + 1

\* C13: when no frame read during the call is classified as speech, the call
\* returns with was_speech_detected False and the 100 ms placeholder of
\* zeros as its (non-empty) audio, after reading no more than max_chunks
\* frames.
C13_AllSilenceResult ==
    (rec_pc = "done" /\ rec_speech_frames = 0) =>
        /\ ~rec_result.was_speech_detected
        /\ rec_result.placeholder
        /\ rec_result.samples = PlaceholderSamples
        /\ rec_result.samples > 0
        /\ Len(rec_log) <= max_chunks

\* a call that read non-speech frames for its whole max_duration, with no
\* stop() and a minimum duration of zero
C13_Witness ==
    /\ rec_pc = "done"
    /\ rec_speech_frames = 0
    /\ min_duration = 0
    /\ max_chunks >= 4
    /\ Len(rec_log) = max_chunks
    /\ NoOverflow
    /\ rec_stop_at = -1 /\ ~rec_stop_event

\* C14: on the first SPEECH_END after speech started in the call, that frame
\* is appended to the captured audio, on_speech_end is invoked once and no
\* further frame is read, however much of max_chunks remains.
C14_SpeechEndStopsReading ==
    \A K, E \in 1..Len(rec_log) :
        (K < E /\ rec_log[K] = SPEECH_START /\ rec_log[E] = SPEECH_END) =>
            /\ Len(rec_log) = E
            /\ n_on_speech_end = 1
            /\ n_on_speech_start = 1
            /\ speech_buffer # <<>>
            /\ speech_buffer[Len(speech_buffer)] = E
            /\ rec_pc \in {"post", "done"}

\* speech ended with two or more iterations of the loop still unused
C14_Witness ==
    /\ rec_pc = "done"
    /\ rec_stop_at = -1
    /\ Len(rec_log) + 2 <= max_chunks
    /\ rec_log # <<>>
    /\ rec_log[Len(rec_log)] = SPEECH_END
    /\ n_on_speech_end = 1

\* a SPEECH_START was returned during this call
SpeechStartObserved == \E K \in 1..Len(rec_log) : rec_log[K] = SPEECH_START

\* C15: the result has was_speech_detected exactly when a SPEECH_START was
\* observed in the call and len(audio) / sample_rate >= min_duration for
\* the returned audio; audio that was captured is returned even when the
\* minimum is not met.
C15_SpeechDetectedFlag ==
    rec_pc = "done" =>
        /\ rec_result.was_speech_detected =
              (/\ SpeechStartObserved
               /\ rec_result.samples * 1000 >= min_duration * AUDIO_SAMPLE_RATE)
        /\ rec_result.audio = speech_buffer
        /\ SpeechStartObserved =>
              /\ rec_result.audio # <<>>
              /\ rec_result.samples = Len(rec_result.audio) * VAD_CHUNK_SAMPLES

\* an utterance exactly as long as the minimum was accepted
C15_Witness ==
    /\ rec_pc = "done"
    /\ SpeechStartObserved
    /\ min_duration > 0
    /\ rec_result.samples * 1000 = min_duration * AUDIO_SAMPLE_RATE
    /\ rec_result.was_speech_detected

\* C27: when record_utterance is called with the default min_duration,
\* record_streaming run on the same reads (the same frames, overflows and
\* detector outcomes) ends at the same read and returns the same
\* RecordingResult, whatever the size of the chunks it yields.
C27_StreamingSameResult ==
    (rec_pc = "done" /\ min_duration = MIN_SPEECH_DURATION_MS) =>
        \A ys \in YieldSamplesArgs :
            LET s == RecordStreaming(rec_log, ys)
            IN /\ s.result = rec_result
               /\ s.broke = (n_on_speech_end > 0)

\* an utterance with look-back frames that ended by SPEECH_END, long enough
\* for the streaming variant to yield audio before the end
C27_Witness ==
    /\ rec_pc = "done"
    /\ min_duration = MIN_SPEECH_DURATION_MS
    /\ n_on_speech_end = 1
    /\ rec_result.was_speech_detected
    /\ rec_result.audio[1] > 1
    /\ "overflow" \in {rec_log[k] : k \in 1..Len(rec_log)}
    /\ Len(RecordStreaming(rec_log, 2 * VAD_CHUNK_SAMPLES).yielded) >= 2
    /\ RecordStreaming(rec_log, 2 * VAD_CHUNK_SAMPLES).result = rec_result

\* ceil(max_duration * sample_rate / chunk_samples), the duration given in
\* milliseconds
CeilChunks(ms) ==
    (ms * AUDIO_SAMPLE_RATE + 1000 * VAD_CHUNK_SAMPLES - 1)
        \div (1000 * VAD_CHUNK_SAMPLES)

\* C30: a recording that no SPEECH_END and no stop() ends reads exactly
\* ceil(max_duration * sample_rate / chunk_samples) frames, a max_duration
\* that is not a whole number of chunks being rounded up.
C30_LoopBoundIsCeiling ==
    (rec_pc = "done" /\ rec_stop_at = -1 /\ n_on_speech_end = 0) =>
        Len(rec_log) = CeilChunks(max_duration)

\* the read at which SPEECH_START was returned
SpeechStartFrame == CHOOSE K \in 1..Len(rec_log) : rec_log[K] = SPEECH_START

\* frames of the returned audio from the SPEECH_START frame on
FramesFromStart ==
    Cardinality({i \in 1..Len(rec_result.audio) :
                    rec_result.audio[i] >= SpeechStartFrame})

\* frames of the returned audio that were read before SPEECH_START
FramesOfLookBack ==
    Cardinality({i \in 1..Len(rec_result.audio) :
                    rec_result.audio[i] < SpeechStartFrame})

\* n frames last less than the minimum duration
ShorterThanMinimum(n) ==
    n * VAD_CHUNK_SAMPLES * 1000 < min_duration * AUDIO_SAMPLE_RATE

RECURSIVE Concatenation(_)
Concatenation(yields) ==
    IF yields = <<>> THEN <<>>
    ELSE Head(yields) \o Concatenation(Tail(yields))

\* C37: for record_streaming run on the reads of the recording, whenever
\* speech was captured the chunks yielded, put together in order, are the
\* audio of the RecordingResult, whether the recording ended by
\* SPEECH_END, at max_duration or by stop().
C37_YieldsAreTheAudio ==
    rec_pc = "done" =>
        \A ys \in YieldSamplesArgs :
            LET run == RecordStreaming(rec_log, ys)
            IN ~run.result.placeholder =>
                  Concatenation(run.yielded) = run.result.audio

\* C7: once stop() has been called on a running record_utterance, at most
\* one further frame is read, and the call returns a normal result.
C7_StopEndsRecording ==
    rec_stop_at # -1 =>
        /\ Len(rec_log) <= rec_stop_at + 1
        /\ rec_pc = "done" => rec_result.samples > 0

(***************************************************************************)
(* Properties of the player (SpecPlay)                                     *)
(***************************************************************************)
\* the loop iterations whose microphone block scored above the threshold
InterruptingBlocks ==
    {j \in 1..Len(mic_log) : /\ mic_log[j].kind = "scored"
                             /\ mic_log[j].prob > INTERRUPT_THRESHOLD}

\* the ranges written so far follow each other from sample 0
InOrder(w) ==
    \A i \in 1..Len(w) :
        /\ w[i].from < w[i].to
        /\ w[i].from = IF i = 1 THEN 0 ELSE w[i - 1].to

\* every sample of the buffer was written, in order
WholeBuffer(w, len) ==
    /\ Len(w) >= 1
    /\ InOrder(w)
    /\ w[Len(w)].to = len

C5_UninterruptedPlaysAll ==
    (/\ play_pc = "done"
     /\ InterruptingBlocks = {}
     /\ play_stop_at = -1
     /\ play_faults = <<>>)
        => /\ play_result = "true"
           /\ WholeBuffer(written, audio_len)
           /\ n_on_interrupt = 0

C5_Witness ==
    /\ play_pc = "done"
    /\ has_vad
    /\ play_stop_at = -1
    /\ play_result = "true"
    /\ audio_len % OutputChunkSize # 0
    /\ Len(written) = MaxPlayBlocks
    /\ \E j \in 1..Len(mic_log) : mic_log[j].kind = "scored"
    /\ \E j \in 1..Len(mic_log) : mic_log[j].kind = "overflow"

\* the loop iterations whose microphone read or detector call failed
MicFailures ==
    {j \in 1..Len(mic_log) : mic_log[j].kind \in {"overflow", "error", "vad_error"}}

\* C16: the first 5 microphone blocks read successfully are not passed to
\* the detector, whatever they contain: a block reaches the detector only
\* after 5 warm-up blocks, the detector is untouched until then, and
\* on_interrupt is not called before the 6th processed block.
C16_WarmupNotScored ==
    /\ \A j \in 1..Len(mic_log) :
          mic_log[j].kind \in {"scored", "vad_error"} =>
              Cardinality({i \in 1..(j - 1) : mic_log[i].kind = "warmup"}) = WARMUP_CHUNKS
    /\ (play_pc \in {"loop", "write", "mic", "exit"} /\ chunks_processed <= WARMUP_CHUNKS) =>
          /\ InterruptingBlocks = {}
          /\ n_on_interrupt = 0
          /\ play_vad.speech_frame_count = 0
          /\ play_vad.silence_frame_count = 0
          /\ ~play_vad.is_speaking
    /\ n_on_interrupt > 0 => chunks_processed > WARMUP_CHUNKS

\* loud blocks were read during the warm-up, and the 6th processed block
\* was the one that interrupted
C16_Witness ==
    /\ play_pc = "done"
    /\ warmup_peak = 2
    /\ chunks_processed = WARMUP_CHUNKS + 1
    /\ n_on_interrupt = 1
    /\ play_result = "false"

\* C17: when opening the output or the input stream fails, the call ends by
\* raising the error to its caller.
C17_OpenFailurePropagates ==
    (play_pc = "done" /\ \E i \in 1..Len(play_faults) : play_faults[i] = "open")
        => play_result = "raised"

\* C18: when an exception escapes the duplex loop (an output write fails),
\* the buffer is handed to the blocking playback, which plays it whole
\* unless it fails itself or is cut by stop(), and the call returns True.
C18_LoopFailureFallsBack ==
    (\E i \in 1..Len(play_faults) : play_faults[i] = "write") =>
        /\ play_pc \in {"blocking", "done"}
        /\ play_pc = "done" =>
              /\ play_result = "true"
              /\ ~is_playing
              /\ (play_faults = <<"write">> /\ ~sd_stopped) =>
                    /\ written # <<>>
                    /\ written[Len(written)] = [from |-> 0, to |-> audio_len]

\* a write failed after blocks had been written and scored, and the
\* fallback played the whole buffer
C18_Witness ==
    /\ play_pc = "done"
    /\ play_faults = <<"write">>
    /\ play_stop_at = -1
    /\ chunks_processed > WARMUP_CHUNKS
    /\ Len(written) = chunks_processed + 1
    /\ written[Len(written)] = [from |-> 0, to |-> audio_len]
    /\ play_result = "true"

\* C19: an overflowed or failed microphone read, or a detector exception,
\* does not end the write loop and is not taken for an interruption; the
\* loop goes on with the next output block, and a call with such blocks but
\* no interruption, no stop() and no output failure writes the whole
\* buffer and returns True.
C19_MicFailuresIgnored ==
    /\ (/\ mic_log # <<>>
        /\ Len(mic_log) \in MicFailures
        /\ play_pc \in {"exit", "done"}
        /\ play_faults = <<>>)
          => \/ audio_pos = audio_len
             \/ was_interrupted /\ play_stop_at # -1
    /\ n_on_interrupt = Cardinality(InterruptingBlocks)
    /\ (/\ play_pc = "done"
        /\ MicFailures # {}
        /\ InterruptingBlocks = {}
        /\ play_stop_at = -1
        /\ play_faults = <<>>)
          => /\ play_result = "true"
             /\ WholeBuffer(written, audio_len)

\* a failed read and a detector exception occurred, blocks were written
\* after the first of them, and the call completed
C19_Witness ==
    /\ play_pc = "done"
    /\ play_stop_at = -1
    /\ play_faults = <<>>
    /\ \E i, j \in MicFailures :
          /\ mic_log[i].kind = "error"
          /\ mic_log[j].kind = "vad_error"
          /\ i + 2 <= Len(written)
    /\ play_result = "true"
    /\ WholeBuffer(written, audio_len)

\* no range repeats samples that an earlier range already sent
NoSampleTwice(w) ==
    \A i, j \in 1..Len(w) : i < j => w[i].to <= w[j].from

\* the first k ranges are the loop's: consecutive blocks from sample 0 up to
\* the position cursor
LoopWrote(k) ==
    /\ InOrder(SubSeq(written, 1, k))
    /\ audio_pos = IF k = 0 THEN 0 ELSE written[k].to

\* C38 as stated: within one play_interruptible call the cursor never
\* exceeds len(audio) and no sample that was already written is sent to
\* the output again.
C38_NoSampleReplayed ==
    /\ audio_pos <= audio_len
    /\ NoSampleTwice(written)

\* C38: the write loop sends consecutive blocks from sample 0 up to the
\* position cursor, which never exceeds len(audio); the only other output
\* of the call is one blocking playback of the buffer from sample 0, made
\* when no detector was given or, after a failure of the loop, as the
\* fallback, which repeats what the loop had already written.
C38_LoopWritesInOrder ==
    /\ audio_pos <= audio_len
    /\ \/ LoopWrote(Len(written))
       \/ /\ written # <<>>
          /\ LoopWrote(Len(written) - 1)
          /\ written[Len(written)].from = 0
          /\ play_pc = "done"
          /\ ~has_vad \/ play_faults # <<>>

\* the loop wrote two blocks or more, a write failed, and the fallback
\* played the buffer from its first sample again
C38_Witness ==
    /\ play_pc = "done"
    /\ has_vad
    /\ play_faults = <<"write">>
    /\ Len(written) >= 3
    /\ LoopWrote(Len(written) - 1)
    /\ audio_pos >= 2 * OutputChunkSize
    /\ written[Len(written)] = [from |-> 0, to |-> audio_len]

\* C34: was_interrupted reflects only the most recent playback call: it is
\* True exactly when that call was cut short by detected user speech, and
\* no flag of an earlier call carries over to a later one.
C34_FlagOfLastCall ==
    /\ was_interrupted => cur_call.speech
    /\ (main_pc = "idle" /\ cur_call.speech) => was_interrupted

\* the runs of _play_blocking that belong to the most recent play() call,
\* have not finished and were not stopped
RunsInProgress ==
    {i \in 1..Len(runners) :
        /\ cur_call.kind = "play"
        /\ runners[i].call = cur_call.no
        /\ runners[i].pc \in {"run", "played", "wait"}
        /\ ~runners[i].stopped}

\* C39: is_playing is True as long as the playback started by the most
\* recent play() is in progress; an earlier non-blocking playback thread
\* that finishes during it does not set is_playing to False.
C39_PlayingWhileInProgress ==
    RunsInProgress # {} => is_playing

\* C9: once stop() has been called during a play_interruptible call, at most
\* one further output block is written before the call ends.
C9_StopEndsPlayback ==
    play_stop_at # -1 => Len(written) <= play_stop_at + 1

(***************************************************************************)
(* Properties of the follow-up scheduler (SpecPipe)                        *)
(***************************************************************************)
\* C6: a call with follow-ups enabled and max_followup_tier in 1..3 in which
\* no recording has speech plays exactly max_followup_tier follow-up
\* prompts, for the tiers 1, 2, ... in that order, returns an empty turn and
\* raises no exception.
C6_SilentTurnPlaysEveryTier ==
    (/\ pipe_pc = "done"
     /\ enable_followups
     /\ max_followup_tier \in 1..3
     /\ ~speech_seen)
        => /\ pipe_raised = "none"
           /\ Len(prompts) = max_followup_tier
           /\ \A i \in 1..Len(prompts) : prompts[i].tier = i /\ prompts[i].list = i
           /\ turn = EmptyTurn

\* C8: once AudioPipeline.stop() has been called during a
\* process_turn_with_followup call, the call starts no further recording,
\* plays no further prompt and generates no further response.
C8_StopEndsTurn ==
    pipe_stop_at # NotStopped
        => /\ Len(recordings) = pipe_stop_at.recordings
           /\ Len(prompts) = pipe_stop_at.prompts
           /\ n_responses = pipe_stop_at.responses

\* C20: the barge-in detector is never the recorder's detector: the steps
\* of a recording leave the barge-in detector as it was, and the steps of a
\* playback leave the recorder's detector as it was.
C20_DetectorsSeparate ==
    [][/\ interrupt_vad' # 0 => interrupt_vad' # recorder_vad'
       /\ (pipe_pc \in {"loop", "rec_clear", "recording"} /\ interrupt_vad # 0) =>
             /\ interrupt_vad' = interrupt_vad
             /\ vad_heap'[interrupt_vad] = vad_heap[interrupt_vad]
       /\ (pipe_pc \in {"play_clear", "playing"} /\ recorder_vad # 0) =>
             /\ recorder_vad' = recorder_vad
             /\ vad_heap'[recorder_vad] = vad_heap[recorder_vad]
    ]_vars

\* a recording left the recorder's detector speaking, and the prompt played
\* after it stepped the barge-in detector on a silent block
C20_Witness ==
    /\ pipe_pc = "loop"
    /\ Len(prompts) >= 1
    /\ interrupt_vad # 0
    /\ vad_heap[recorder_vad].is_speaking
    /\ vad_heap[recorder_vad].speech_frame_count = VAD_SPEECH_PAD_FRAMES
    /\ ~vad_heap[interrupt_vad].is_speaking
    /\ vad_heap[interrupt_vad].silence_frame_count = 1

\* number of recordings started among the first n entries of the log
Listens(n) == Cardinality({k \in 1..n : pipe_log[k] = "listen"})

\* the sum of the first n listening windows
RECURSIVE WindowsBefore(_)
WindowsBefore(n) == IF n = 0 THEN 0 ELSE WindowsBefore(n - 1) + recordings[n]

\* max_followup_tier within the range its documentation gives
DocumentedTiers == max_followup_tier \in 1..Len(tier_timeouts)

\* C21: when the response generator or the synthesizer fails during a turn,
\* process_turn_with_followup still returns: no exception reaches its
\* caller.
C21_GenerationFailuresContained ==
    (pipe_pc = "done" /\ pipe_faults # <<>>) => pipe_raised = "none"

\* C22: a call in which a recording had speech and a non-blank
\* transcription ends with transcribe, respond, synthesize, play in that
\* order, each done once, and returns the turn; no prompt and no recording
\* follows.
C22_SpokenTurnRunsOnce ==
    (pipe_pc = "done" /\ ~IsBlank(turn.user_text)) =>
        /\ pipe_raised = "none"
        /\ LastN(pipe_log, 5) =
              <<"transcribe", "respond", "synthesize", "play", "return">>
        /\ Cardinality({k \in 1..Len(pipe_log) : pipe_log[k] = "respond"}) = 1
        /\ turn.tutor_text # "" /\ turn.tutor_audio # "None"

\* C23: after play_interruptible reports a follow-up prompt as interrupted,
\* the next thing the scheduler does is start a recording: no prompt and no
\* response comes before it.
C23_InterruptedPromptThenListen ==
    DocumentedTiers =>
        \A i \in 1..Len(pipe_log) :
            pipe_log[i] = "interrupted" =>
                IF i = Len(pipe_log)
                THEN /\ pipe_pc = "loop"
                     /\ LoopContinues(current_tier, max_followup_tier)
                     /\ ~TimeoutIndexError(current_tier)
                ELSE pipe_log[i + 1] = "listen"

\* the prompt of the last tier was interrupted and the scheduler listened
\* again
C23_Witness ==
    /\ DocumentedTiers
    /\ Len(pipe_log) >= 2
    /\ pipe_log[Len(pipe_log) - 1] = "interrupted"
    /\ pipe_log[Len(pipe_log)] = "listen"
    /\ Len(prompts) >= 1
    /\ prompts[Len(prompts)].tier = max_followup_tier

C25_WindowsAreIncremental ==
    ~speech_seen =>
        \A j \in 1..Len(prompts) :
            prompts[j].tier \in 1..Len(tier_timeouts) =>
                /\ prompts[j].tier = j
                /\ Len(recordings) >= j
                /\ WindowsBefore(j) = tier_timeouts[j]
                /\ j > 1 => recordings[j] = tier_timeouts[j] - tier_timeouts[j - 1]

\* three silent windows of 10 s each, the tier-3 prompt played after 30 s
C25_Witness ==
    /\ ~speech_seen
    /\ Len(prompts) = 3
    /\ prompts[3].tier = 3
    /\ SubSeq(recordings, 1, 3) = <<10, 10, 10>>
    /\ WindowsBefore(3) = FOLLOWUP_TIER3_TIMEOUT

\* C29: every follow-up prompt played, the one of the last tier included,
\* is followed by a recording whose window is longer than zero.
C29_ListensAfterEveryPrompt ==
    (pipe_pc = "done" /\ pipe_raised = "none" /\ DocumentedTiers) =>
        \A i \in 1..Len(pipe_log) :
            pipe_log[i] = "prompt" =>
                /\ Listens(i) + 1 <= Len(recordings)
                /\ recordings[Listens(i) + 1] > 0

\* the tier counts the loop iterations begun, and bounds the recordings
\* made and the prompts played
TierBounds ==
    /\ Len(recordings) <= max_followup_tier + 1
    /\ Len(prompts) <= max_followup_tier
    /\ current_tier <= max_followup_tier + 1
    /\ pipe_pc = "loop" => Len(recordings) = current_tier
    /\ pipe_pc \in {"rec_clear", "recording", "transcribe", "respond", "synth"}
          => Len(recordings) = current_tier + 1

\* C35: the tier goes up by one on every loop iteration that does not
\* leave the call, so the number of iterations begun is the tier plus one:
\* whatever the recorder, the transcriber and the player return, at most
\* max_followup_tier + 1 recordings are made and at most max_followup_tier
\* follow-up prompts are played, and every call that was started ends.
C35_TierBoundsTheTurn ==
    /\ []TierBounds
    /\ <>[](pipe_pc \in {"idle", "done"})

\* every window was used and every prompt played, one of them cut short
\* by the user
C35_Witness ==
    /\ pipe_pc = "done"
    /\ max_followup_tier = Len(tier_timeouts)
    /\ Len(recordings) = max_followup_tier + 1
    /\ Len(prompts) = max_followup_tier
    /\ pipe_raised = "none"
    /\ \E k \in 1..Len(pipe_log) : pipe_log[k] = "interrupted"

\* C36: when the call has used up its tiers without a tutor response, the
\* turn it returns is empty (user_text '', user_audio None, tutor_text ''),
\* whatever happened at the tiers before.
C36_ExhaustedTurnIsEmpty ==
    (/\ pipe_pc = "done"
     /\ pipe_raised = "none"
     /\ n_responses = 0
     /\ ~LoopContinues(current_tier, max_followup_tier))
        => /\ turn.user_text = ""
           /\ turn.user_audio = "None"
           /\ turn.tutor_text = ""

\* the code of the supported native language a native_language value names
StudentLanguageOf(name) == IF Lower(name[1]) = "e" THEN EN ELSE DE

\* C32: for each supported native language (English, German) every
\* follow-up prompt is taken from that language's prompt list and
\* synthesized with that language's code (en for English, de for German);
\* the synthesizer is never handed a code it has no voice for.
C32_PromptInNativeLanguage ==
    pipe_pc # "idle" =>
        /\ \A i \in 1..Len(prompts) :
              /\ prompts[i].text = StudentLanguageOf(native_language)
              /\ prompts[i].voice = StudentLanguageOf(native_language)
        /\ pipe_raised # "ValueError"

(***************************************************************************)
(* Properties of the tutor's conversation history (SpecTutor)              *)
(***************************************************************************)
\* C26: whatever respond() calls (answered or failing) and
\* reset_conversation() calls were made, the history holds at most
\* MAX_CONVERSATION_HISTORY messages, and what a trim removes are the
\* oldest user/assistant pairs.
C26_HistoryBounded ==
    /\ Len(history) <= MAX_CONVERSATION_HISTORY
    /\ Len(evicted) % 2 = 0
    /\ \A i \in 1..Len(evicted) :
          i % 2 = 1 =>
             /\ evicted[i].role = "user"
             /\ evicted[i + 1].role = "assistant"
             /\ evicted[i + 1].call = evicted[i].call

=============================================================================
